---- MODULE Spec2Model ----
EXTENDS Integers, Sequences, FiniteSets, TLC

(***************************************************************************)
(* Unsigned integers wider than the checker's machine integers are held as *)
(* little-endian sequences of limbs without leading zero limbs (zero is    *)
(* the empty sequence).  Stored u64 values use decimal limbs (Dec); the    *)
(* IEEE-754 kernel works on binary limbs (Bin).                            *)
(***************************************************************************)
Dec == 10^3
Bin == 2^15

RECURSIVE LNorm(_)
LNorm(s) == IF s = <<>> THEN <<>>
            ELSE IF s[Len(s)] = 0 THEN LNorm(SubSeq(s, 1, Len(s) - 1)) ELSE s

RECURSIVE LFromNat(_, _)
LFromNat(B, n) == IF n = 0 THEN <<>> ELSE <<n % B>> \o LFromNat(B, n \div B)

RECURSIVE LCmpAt(_, _, _)
LCmpAt(a, b, i) == IF i = 0 THEN 0
                   ELSE IF a[i] < b[i] THEN -1
                   ELSE IF a[i] > b[i] THEN 1
                   ELSE LCmpAt(a, b, i - 1)
LCmp(a, b) == IF Len(a) < Len(b) THEN -1
              ELSE IF Len(a) > Len(b) THEN 1
              ELSE LCmpAt(a, b, Len(a))

RECURSIVE LAddC(_, _, _, _)
LAddC(B, a, b, c) ==
    IF a = <<>> /\ b = <<>> THEN (IF c = 0 THEN <<>> ELSE <<c>>)
    ELSE LET x == (IF a = <<>> THEN 0 ELSE Head(a)) + (IF b = <<>> THEN 0 ELSE Head(b)) + c
         IN <<x % B>> \o LAddC(B, IF a = <<>> THEN <<>> ELSE Tail(a),
                                  IF b = <<>> THEN <<>> ELSE Tail(b), x \div B)
LAdd(B, a, b) == LAddC(B, a, b, 0)

RECURSIVE LSubB(_, _, _, _)
LSubB(B, a, b, br) ==
    IF a = <<>> THEN <<>>
    ELSE LET x == Head(a) - (IF b = <<>> THEN 0 ELSE Head(b)) - br
         IN <<IF x < 0 THEN x + B ELSE x>>
            \o LSubB(B, Tail(a), IF b = <<>> THEN <<>> ELSE Tail(b), IF x < 0 THEN 1 ELSE 0)
LSub(B, a, b) == LNorm(LSubB(B, a, b, 0))

RECURSIVE LMulSmallC(_, _, _, _)
LMulSmallC(B, a, k, c) ==
    IF a = <<>> THEN LFromNat(B, c)
    ELSE LET x == Head(a) * k + c
         IN <<x % B>> \o LMulSmallC(B, Tail(a), k, x \div B)
LMulSmall(B, a, k) == IF k = 0 THEN <<>> ELSE LMulSmallC(B, a, k, 0)

RECURSIVE LMul(_, _, _)
LMul(B, a, b) ==
    IF a = <<>> \/ b = <<>> THEN <<>>
    ELSE LET t == LMul(B, a, Tail(b))
         IN LAdd(B, LMulSmall(B, a, Head(b)), IF t = <<>> THEN <<>> ELSE <<0>> \o t)

\* a \div k and a % k for a machine-sized divisor 0 < k <= B
RECURSIVE LDivSmallAt(_, _, _, _, _, _)
LDivSmallAt(B, a, k, i, rem, q) ==
    IF i = 0 THEN [q |-> LNorm(q), r |-> rem]
    ELSE LET x == rem * B + a[i]
         IN LDivSmallAt(B, a, k, i - 1, x % k, <<x \div k>> \o q)
LDivSmall(B, a, k) == LDivSmallAt(B, a, k, Len(a), 0, <<>>)

RECURSIVE LDigit(_, _, _, _, _)
LDigit(B, r, b, lo, hi) ==
    IF lo >= hi THEN lo
    ELSE LET mid == (lo + hi + 1) \div 2
         IN IF LCmp(LMulSmall(B, b, mid), r) <= 0 THEN LDigit(B, r, b, mid, hi)
            ELSE LDigit(B, r, b, lo, mid - 1)

\* r \div b for r < b * B, bracketed from the leading limbs of r and b
LQuotDigit(B, r, b) ==
    IF LCmp(r, b) < 0 THEN 0
    ELSE LET n  == Len(b)
             bt == b[n]
             rt == r[n] + (IF Len(r) > n THEN B * r[n + 1] ELSE 0)
             hi == IF rt \div bt > B - 1 THEN B - 1 ELSE rt \div bt
             lo == IF n = 1 THEN hi ELSE rt \div (bt + 1)
         IN LDigit(B, r, b, lo, hi)

RECURSIVE LDivModAt(_, _, _, _, _, _)
LDivModAt(B, a, b, i, rem, q) ==
    IF i = 0 THEN [q |-> LNorm(q), r |-> rem]
    ELSE LET Digit(r1, d) ==
                 LDivModAt(B, a, b, i - 1,
                           IF d = 0 THEN r1 ELSE LSub(B, r1, LMulSmall(B, b, d)), <<d>> \o q)
             Bring(r1) == Digit(r1, LQuotDigit(B, r1, b))
         IN Bring(LNorm(<<a[i]>> \o rem))

\* schoolbook long division, divisor scaled so that its leading limb is >= B \div 2
LDivMod(B, a, b) ==
    LET Unscaled(f, qr) == [q |-> qr.q, r |-> LDivSmall(B, qr.r, f).q]
        Scaled(f, af, bf) == Unscaled(f, LDivModAt(B, af, bf, Len(af), <<>>, <<>>))
        Scale(f) == Scaled(f, LMulSmall(B, a, f), LMulSmall(B, b, f))
    IN Scale(B \div (b[Len(b)] + 1))

RECURSIVE LConvAt(_, _, _, _, _)
LConvAt(F, T, a, i, acc) ==
    IF i = 0 THEN acc
    ELSE LConvAt(F, T, a, i - 1, LAdd(T, LMulSmall(T, acc, F), LFromNat(T, a[i])))
LConv(F, T, a) == LConvAt(F, T, a, Len(a), <<>>)

(***************************************************************************)
(* IEEE-754 binary floating point, non-negative values only: a number is   *)
(* m * 2^e with m = 0 or 2^(p-1) <= m < 2^p, or it is inf or nan.          *)
(***************************************************************************)
BitLen(a) == IF a = <<>> THEN 0
             ELSE 15 * (Len(a) - 1) + (CHOOSE j \in 1..15 : 2^(j - 1) <= a[Len(a)] /\ a[Len(a)] < 2^j)
Shl(a, s) == IF a = <<>> THEN <<>>
             ELSE [i \in 1..(s \div 15) |-> 0] \o LMulSmall(Bin, a, 2^(s % 15))
Pow2(s) == Shl(<<1>>, s)
BIsOdd(a) == a # <<>> /\ a[1] % 2 = 1

\* the p-bit float nearest to n / d (n, d > 0), ties to even
RoundRat(n, d, p) ==
    LET Num(s) == IF s >= 0 THEN Shl(n, s) ELSE n
        Den(s) == IF s >= 0 THEN d ELSE Shl(d, -s)
        Pack(sh, m) == IF BitLen(m) > p THEN [k |-> "num", m |-> Pow2(p - 1), e |-> 1 - sh]
                       ELSE [k |-> "num", m |-> m, e |-> -sh]
        Up(q, c) == c > 0 \/ (c = 0 /\ BIsOdd(q))
        Round(sh, qr, den) ==
            Pack(sh, IF Up(qr.q, LCmp(LMulSmall(Bin, qr.r, 2), den))
                     THEN LAdd(Bin, qr.q, <<1>>) ELSE qr.q)
        Divide(sh) == Round(sh, LDivMod(Bin, Num(sh), Den(sh)), Den(sh))
        First(sh0, qr0) == IF BitLen(qr0.q) > p THEN Divide(sh0 - 1) ELSE Round(sh0, qr0, Den(sh0))
        Start(sh0) == First(sh0, LDivMod(Bin, Num(sh0), Den(sh0)))
    IN Start(p - (BitLen(n) - BitLen(d)))

FZero == [k |-> "num", m |-> <<>>, e |-> 0]
FNaN == [k |-> "nan", m |-> <<>>, e |-> 0]
FInf == [k |-> "inf", m |-> <<>>, e |-> 0]
IsZero(x) == x.k = "num" /\ x.m = <<>>

\* `as f64` of a u64
U64ToF64(n) == IF n = <<>> THEN FZero ELSE RoundRat(LConv(Dec, Bin, n), <<1>>, 53)

FDiv(x, y) ==
    IF x.k = "nan" \/ y.k = "nan" THEN FNaN
    ELSE IF x.k = "inf" THEN (IF y.k = "inf" THEN FNaN ELSE FInf)
    ELSE IF y.k = "inf" THEN FZero
    ELSE IF y.m = <<>> THEN (IF x.m = <<>> THEN FNaN ELSE FInf)
    ELSE IF x.m = <<>> THEN FZero
    ELSE LET r == RoundRat(x.m, y.m, 53) IN [r EXCEPT !.e = @ + x.e - y.e]

FMul(x, y) ==
    IF x.k = "nan" \/ y.k = "nan" THEN FNaN
    ELSE IF x.k = "inf" \/ y.k = "inf" THEN (IF IsZero(x) \/ IsZero(y) THEN FNaN ELSE FInf)
    ELSE IF x.m = <<>> \/ y.m = <<>> THEN FZero
    ELSE LET r == RoundRat(LMul(Bin, x.m, y.m), <<1>>, 53) IN [r EXCEPT !.e = @ + x.e + y.e]

U64Max == <<615, 551, 709, 73, 744, 446, 18>>

\* `as u64` of an f64: truncates toward zero, saturates, NaN becomes 0
F64ToU64(x) ==
    IF x.k = "nan" THEN <<>>
    ELSE IF x.k = "inf" THEN U64Max
    ELSE IF x.m = <<>> THEN <<>>
    ELSE IF BitLen(x.m) + x.e > 64 THEN U64Max
    ELSE IF BitLen(x.m) + x.e <= 0 THEN <<>>
    ELSE IF x.e >= 0 THEN LConv(Bin, Dec, Shl(x.m, x.e))
    ELSE LConv(Bin, Dec, LDivMod(Bin, x.m, Pow2(-x.e)).q)

(***************************************************************************)
(* Results.  A call returns Ok(value) or Err(kind, msg); an abort of the   *)
(* thread (panic) is the kind "panic".                                     *)
(***************************************************************************)
NoValue == "none"
Ok(v) == [kind |-> "Ok", value |-> v, msg |-> ""]
Err(kind, msg) == [kind |-> kind, value |-> NoValue, msg |-> msg]
Panic(msg) == [kind |-> "panic", value |-> NoValue, msg |-> msg]
NotCalled == [kind |-> "pending", value |-> NoValue, msg |-> ""]

(***************************************************************************)
(* Rate engine (lib.rs)                                                    *)
(***************************************************************************)
\* 60_000_000_000 in decimal limbs
NS_PER_MINUTE == <<0, 0, 0, 60>>

calculate_time_difference(first_time, second_time) ==
    IF LCmp(first_time, second_time) > 0
    THEN Err("InvalidInput", "first time was after second time")
    ELSE Ok(LSub(Dec, second_time, first_time))

time_adjusted(field_name, first_value, second_value, time_difference_ns) ==
    IF LCmp(first_value, second_value) < 0
    THEN Err("UnexpectedContent", field_name)
    ELSE Ok(F64ToU64(FMul(FDiv(U64ToF64(LSub(Dec, first_value, second_value)),
                               U64ToF64(time_difference_ns)),
                          U64ToF64(NS_PER_MINUTE))))

\* the fields of a struct literal are evaluated in order and the first `?`
\* that sees an Err returns it: fold time_adjusted over the fields
RECURSIVE AdjustFields(_, _, _, _, _, _)
AdjustFields(fields, i, nextStat, prevStat, td, acc) ==
    IF i > Len(fields) THEN Ok(acc)
    ELSE LET Field(f, r) ==
                 IF r.kind # "Ok" THEN r
                 ELSE AdjustFields(fields, i + 1, nextStat, prevStat, td, acc @@ (f :> r.value))
         IN Field(fields[i], time_adjusted(fields[i], nextStat[fields[i]], prevStat[fields[i]], td))

(***************************************************************************)
(* CPU domain (cpu/proc.rs)                                                *)
(***************************************************************************)
CpuFields == <<"total", "user", "nice", "system", "idle", "iowait", "irq",
               "softirq", "steal", "guest", "guestnice">>

CpuCalculatePerMinuteResult(self, next_measurement) ==
    LET td == calculate_time_difference(self.precise_time_ns, next_measurement.precise_time_ns)
    IN IF td.kind # "Ok" THEN td
       ELSE AdjustFields(CpuFields, 1, next_measurement.stat, self.stat, td.value, <<>>)

(***************************************************************************)
(* Network domain (network.rs)                                             *)
(***************************************************************************)
NetworkFields == <<"received", "transmitted">>

\* a loop that passes over an interface that next does not have
RECURSIVE NetworkLoopSkipMissing(_, _, _, _, _, _)
NetworkLoopSkipMissing(order, i, self, next_measurement, td, interfaces) ==
    IF i > Len(order) THEN Ok(interfaces)
    ELSE LET name == order[i]
         IN IF name \notin DOMAIN next_measurement.interfaces
            THEN NetworkLoopSkipMissing(order, i + 1, self, next_measurement, td, interfaces)
            ELSE LET Traffic(r) ==
                         IF r.kind # "Ok" THEN r
                         ELSE NetworkLoopSkipMissing(order, i + 1, self, next_measurement, td,
                                                     interfaces @@ (name :> r.value))
                 IN Traffic(AdjustFields(NetworkFields, 1, next_measurement.interfaces[name],
                                         self.interfaces[name], td, <<>>))

\* the loop over self.interfaces, visited in the order `order`
RECURSIVE NetworkLoop(_, _, _, _, _, _)
NetworkLoop(order, i, self, next_measurement, td, interfaces) ==
    IF i > Len(order) THEN Ok(interfaces)
    ELSE LET name == order[i]
         IN IF name \notin DOMAIN next_measurement.interfaces
            THEN Err("UnexpectedContent", name)
            ELSE LET Traffic(r) ==
                         IF r.kind # "Ok" THEN r
                         ELSE NetworkLoop(order, i + 1, self, next_measurement, td,
                                          interfaces @@ (name :> r.value))
                 IN Traffic(AdjustFields(NetworkFields, 1, next_measurement.interfaces[name],
                                         self.interfaces[name], td, <<>>))

\* a calculate_per_minute that looks at the interfaces before the times
NetworkCalculatePerMinuteCountersFirst(self, next_measurement, order) ==
    LET td == calculate_time_difference(self.precise_time_ns, next_measurement.precise_time_ns)
        Checked(r) == IF r.kind # "Ok" THEN r ELSE IF td.kind # "Ok" THEN td ELSE r
    IN Checked(NetworkLoop(order, 1, self, next_measurement,
                           IF td.kind = "Ok" THEN td.value ELSE NS_PER_MINUTE, <<>>))

NetworkCalculatePerMinuteResult(self, next_measurement, order) ==
    LET td == calculate_time_difference(self.precise_time_ns, next_measurement.precise_time_ns)
    IN IF td.kind # "Ok" THEN td
       ELSE NetworkLoop(order, 1, self, next_measurement, td.value, <<>>)

(***************************************************************************)
(* Disk domain (disk_stats.rs)                                             *)
(***************************************************************************)
ProcDiskFields == <<"reads_completed_successfully", "reads_merged", "sectors_read",
                    "time_spent_reading_ms", "writes_completed", "writes_merged",
                    "sectors_written", "time_spent_writing_ms", "ios_currently_in_progress",
                    "time_spent_doing_ios_ms", "weighted_time_spent_doing_ios_ms">>
SysDiskFields == <<"read", "written">>
DiskFieldsOf(variant) == IF variant = "Proc" THEN ProcDiskFields ELSE SysDiskFields

\* a DiskStat is [variant |-> "Proc" | "Sys", s |-> the fields of the variant]
RECURSIVE DiskLoop(_, _, _, _, _, _)
DiskLoop(order, i, self, next_measurement, td, stats) ==
    IF i > Len(order) THEN Ok(stats)
    ELSE LET name == order[i]
             stat == self.stats[name]
         IN IF name \notin DOMAIN next_measurement.stats
            THEN Err("UnexpectedContent", name)
            ELSE LET next_stat == next_measurement.stats[name]
                 IN IF next_stat.variant # stat.variant
                    THEN Panic("wrong type expected here TODO")
                    ELSE LET Stat(r) ==
                                 IF r.kind # "Ok" THEN r
                                 ELSE DiskLoop(order, i + 1, self, next_measurement, td,
                                               stats @@ (name :> [variant |-> stat.variant,
                                                                  s |-> r.value]))
                         IN Stat(AdjustFields(DiskFieldsOf(stat.variant), 1, next_stat.s,
                                              stat.s, td, <<>>))

DiskCalculatePerMinuteResult(self, next_measurement, order) ==
    LET td == calculate_time_difference(self.precise_time_ns, next_measurement.precise_time_ns)
    IN IF td.kind # "Ok" THEN td
       ELSE DiskLoop(order, 1, self, next_measurement, td.value, <<>>)

\* the orders in which a HashMap with key set S can be iterated
Orders(S) == {o \in [1..Cardinality(S) -> S] : \A i, j \in 1..Cardinality(S) : o[i] = o[j] => i = j}

(***************************************************************************)
(* Files.  A path is the sequence of its components.  The file system maps *)
(* each path that exists to a directory or to a file; the content of a     *)
(* file is its lines, a line is its whitespace-separated segments and a    *)
(* segment is its characters.                                              *)
(***************************************************************************)
Join(path, name) == Append(path, name)
Dir == [kind |-> "dir", lines |-> <<>>]
File(lines) == [kind |-> "file", lines |-> lines]
Exists(files, path) == path \in DOMAIN files
dir_exists(files, path) == Exists(files, path) /\ files[path].kind = "dir"

\* opening a path that is missing fails; reading what is no file fails
file_to_buf_reader(files, path) ==
    IF Exists(files, path) THEN Ok(files[path]) ELSE Err("IO", path)
Lines(reader, path) ==
    IF reader.kind = "file" THEN Ok(reader.lines) ELSE Err("IO", path)
file_to_string(files, path) ==
    LET Read(reader) == IF reader.kind # "Ok" THEN reader ELSE Lines(reader.value, path)
    IN Read(file_to_buf_reader(files, path))

\* str::trim of a text: its segments with the white space between them
RECURSIVE Segments(_)
Segments(lines) == IF lines = <<>> THEN <<>> ELSE Head(lines) \o Segments(Tail(lines))
RECURSIVE Spaced(_)
Spaced(segments) ==
    IF segments = <<>> THEN <<>>
    ELSE IF Len(segments) = 1 THEN segments[1]
    ELSE segments[1] \o <<" ">> \o Spaced(Tail(segments))
trim(lines) == Spaced(Segments(lines))

DigitChars == <<"0", "1", "2", "3", "4", "5", "6", "7", "8", "9">>
IsDigit(c) == \E d \in 1..10 : DigitChars[d] = c
DigitValue(c) == (CHOOSE d \in 1..10 : DigitChars[d] = c) - 1
RECURSIVE ParseDigits(_, _, _)
ParseDigits(segment, i, acc) ==
    IF i > Len(segment) THEN acc
    ELSE ParseDigits(segment, i + 1,
                     LAdd(Dec, LMulSmall(Dec, acc, 10), LFromNat(Dec, DigitValue(segment[i]))))

\* str::parse::<u64>: an optional +, then digits only, no overflow
parse_u64(segment) ==
    LET Checked(value) == IF LCmp(value, U64Max) > 0
                          THEN Err("UnexpectedContent", "Could not parse as u64")
                          ELSE Ok(value)
        Parse(digits) == IF digits = <<>> \/ \E i \in 1..Len(digits) : ~IsDigit(digits[i])
                         THEN Err("UnexpectedContent", "Could not parse as u64")
                         ELSE Checked(ParseDigits(digits, 1, <<>>))
    IN Parse(IF segment # <<>> /\ segment[1] = "+" THEN Tail(segment) ELSE segment)

\* the first line of the file, trimmed and parsed
read_file_value_as_u64(files, path) ==
    LET FirstLine(text) ==
            IF text.kind # "Ok" THEN text
            ELSE parse_u64(IF text.value = <<>> THEN <<>> ELSE Spaced(text.value[1]))
    IN FirstLine(file_to_string(files, path))

\* the decimal text of a u64, as the kernel writes a counter
RECURSIVE NatToChars(_)
NatToChars(n) ==
    IF n < 10 THEN <<DigitChars[n + 1]>>
    ELSE NatToChars(n \div 10) \o <<DigitChars[(n % 10) + 1]>>
LimbToChars(n) == <<DigitChars[(n \div 100) + 1], DigitChars[((n \div 10) % 10) + 1], DigitChars[(n % 10) + 1]>>
RECURSIVE LimbsToChars(_, _)
LimbsToChars(a, i) == IF i = 0 THEN <<>> ELSE LimbToChars(a[i]) \o LimbsToChars(a, i - 1)
Decimal(a) ==
    IF a = <<>> THEN <<"0">>
    ELSE NatToChars(a[Len(a)]) \o LimbsToChars(a, Len(a) - 1)

(***************************************************************************)
(* u64 arithmetic.  An overflow aborts the thread when the build checks    *)
(* overflow (debug) and wraps when it does not (release).                  *)
(***************************************************************************)
TwoPow64 == <<616, 551, 709, 73, 744, 446, 18>>
MulU64(a, b, overflow_checks) ==
    LET Product(p) == IF LCmp(p, U64Max) <= 0 THEN Ok(p)
                      ELSE IF overflow_checks THEN Panic("attempt to multiply with overflow")
                      ELSE Ok(LDivMod(Dec, p, TwoPow64).r)
    IN Product(LMul(Dec, a, b))
SubU64(a, b, overflow_checks) ==
    IF LCmp(a, b) >= 0 THEN Ok(LSub(Dec, a, b))
    ELSE IF overflow_checks THEN Panic("attempt to subtract with overflow")
    ELSE Ok(LSub(Dec, LAdd(Dec, a, TwoPow64), b))
saturating_sub(a, b) == IF LCmp(a, b) >= 0 THEN LSub(Dec, a, b) ELSE <<>>
bytes_to_kilo_bytes(bytes) == LDivSmall(Dec, bytes, 1024).q

\* Option: None is the empty sequence, Some(x) the sequence of x alone
None == <<>>
Some(x) == <<x>>

\* a comparison that lets a count of zero pass: cpu_count >= 0.0
FGeZero(x) == x.k # "nan"

\* x > 0.0
FGtZero(x) == x.k = "inf" \/ (x.k = "num" /\ x.m # <<>>)
\* f64::round: to the nearest integer, halves away from zero
FRound(x) ==
    IF x.k # "num" \/ x.m = <<>> \/ x.e >= 0 THEN x
    ELSE LET Nearest(qr, one) ==
                 [k |-> "num", e |-> 0,
                  m |-> IF LCmp(LMulSmall(Bin, qr.r, 2), one) >= 0
                        THEN LAdd(Bin, qr.q, <<1>>) ELSE qr.q]
         IN Nearest(LDivMod(Bin, x.m, Pow2(-x.e)), Pow2(-x.e))

(***************************************************************************)
(* cgroup v1 CPU backend (cpu/cgroup_v1.rs)                                *)
(***************************************************************************)
CPU_SYS_V1_NUMBER_OF_FIELDS == 2
\* 10_000_000 in decimal limbs
TEN_MILLION == <<0, 0, 10>>
MinusOne == <<"-", "1">>
UserKey == <<"u", "s", "e", "r">>
SystemKey == <<"s", "y", "s", "t", "e", "m">>

\* the number of CPUs of the cgroup, 0.0 when it cannot be told
V1CpuCount(files, cpu_period_path, cpu_quota_path) ==
    LET Quota(cpu_period, cpu_quota) ==
            IF cpu_quota.kind # "Ok" THEN cpu_quota
            ELSE Ok(FDiv(U64ToF64(cpu_quota.value), U64ToF64(cpu_period)))
        QuotaRaw(cpu_period, cpu_quota_raw) ==
            IF cpu_quota_raw = MinusOne THEN Ok(FZero)
            ELSE Quota(cpu_period, parse_u64(cpu_quota_raw))
        QuotaText(cpu_period, quota_text) ==
            IF quota_text.kind # "Ok" THEN quota_text
            ELSE QuotaRaw(cpu_period, trim(quota_text.value))
        Period(cpu_period) ==
            IF cpu_period.kind # "Ok" THEN cpu_period
            ELSE QuotaText(cpu_period.value, file_to_string(files, cpu_quota_path))
        PeriodText(period_text) ==
            IF period_text.kind # "Ok" THEN period_text
            ELSE Period(parse_u64(trim(period_text.value)))
    IN IF Exists(files, cpu_period_path) /\ Exists(files, cpu_quota_path)
       THEN PeriodText(file_to_string(files, cpu_period_path))
       ELSE Ok(FZero)

\* a division by a CPU count that is not above zero
NormalizeTotalUsageUnguarded(total_usage, cpu_count) ==
    F64ToU64(FRound(FDiv(U64ToF64(total_usage), cpu_count)))

NormalizeTotalUsage(total_usage, cpu_count) ==
    IF FGtZero(cpu_count)
    THEN F64ToU64(FRound(FDiv(U64ToF64(total_usage), cpu_count)))
    ELSE total_usage

RECURSIVE V1StatLoop(_, _, _, _, _)
V1StatLoop(lines, i, cpu, fields_encountered, overflow_checks) ==
    IF i > Len(lines) \/ fields_encountered = CPU_SYS_V1_NUMBER_OF_FIELDS
    THEN Ok([cpu |-> cpu, fields_encountered |-> fields_encountered])
    ELSE LET User(scaled) ==
                 IF scaled.kind # "Ok" THEN scaled
                 ELSE V1StatLoop(lines, i + 1, [cpu EXCEPT !.user = scaled.value],
                                 fields_encountered + 1, overflow_checks)
             System(scaled) ==
                 IF scaled.kind # "Ok" THEN scaled
                 ELSE V1StatLoop(lines, i + 1, [cpu EXCEPT !.system = scaled.value],
                                 fields_encountered + 1, overflow_checks)
             Line(segments, value) ==
                 IF value.kind # "Ok" THEN value
                 ELSE IF segments[1] = UserKey
                 THEN User(MulU64(value.value, TEN_MILLION, overflow_checks))
                 ELSE IF segments[1] = SystemKey
                 THEN System(MulU64(value.value, TEN_MILLION, overflow_checks))
                 ELSE V1StatLoop(lines, i + 1, cpu, fields_encountered, overflow_checks)
         IN IF Len(lines[i]) < 2 THEN Panic("index out of bounds")
            ELSE Line(lines[i], parse_u64(lines[i][2]))

\* the stat of the measurement that is returned (its time is the clock's)
read_and_parse_v1_sys_stat(files, path, cpu_period_path, cpu_quota_path, overflow_checks) ==
    LET Fields(loop) ==
            IF loop.kind # "Ok" THEN loop
            ELSE IF loop.value.fields_encountered # CPU_SYS_V1_NUMBER_OF_FIELDS
            THEN Err("UnexpectedContent", "Did not encounter all expected fields")
            ELSE Ok(loop.value.cpu)
        Stat(cpu_count, total_usage, lines) ==
            IF lines.kind # "Ok" THEN lines
            ELSE Fields(V1StatLoop(lines.value, 1,
                                   [total_usage |-> NormalizeTotalUsage(total_usage, cpu_count),
                                    user |-> <<>>, system |-> <<>>],
                                   0, overflow_checks))
        Usage(cpu_count, reader, total_usage) ==
            IF total_usage.kind # "Ok" THEN total_usage
            ELSE Stat(cpu_count, total_usage.value, Lines(reader, Join(path, "cpuacct.stat")))
        Reader(cpu_count, reader) ==
            IF reader.kind # "Ok" THEN reader
            ELSE Usage(cpu_count, reader.value,
                       read_file_value_as_u64(files, Join(path, "cpuacct.usage")))
        CpuCount(cpu_count) ==
            IF cpu_count.kind # "Ok" THEN cpu_count
            ELSE Reader(cpu_count.value, file_to_buf_reader(files, Join(path, "cpuacct.stat")))
    IN CpuCount(V1CpuCount(files, cpu_period_path, cpu_quota_path))

(***************************************************************************)
(* cgroup v2 CPU backend (cpu/cgroup_v2.rs).  The backend gives its result *)
(* and what it did to the file system, in order.                           *)
(***************************************************************************)
\* what a backend gives: its result and what it opened, in order
Returned(result, opened) == [result |-> result, opened |-> opened]

CPU_SYS_V2_NUMBER_OF_FIELDS == 3
\* 1_000 in decimal limbs
ONE_THOUSAND == <<0, 1>>
UsageUsecKey == <<"u", "s", "a", "g", "e", "_", "u", "s", "e", "c">>
UserUsecKey == <<"u", "s", "e", "r", "_", "u", "s", "e", "c">>
SystemUsecKey == <<"s", "y", "s", "t", "e", "m", "_", "u", "s", "e", "c">>
MaxKey == <<"m", "a", "x">>

\* cpu_count = quota / period of cpu.max; the period is parsed first
V2Quota(period, max) ==
    IF period.kind # "Ok" THEN period
    ELSE IF max.kind # "Ok" THEN max
    ELSE Ok(Some(FDiv(U64ToF64(max.value), U64ToF64(period.value))))

\* the first line of cpu.max, if it can be read and there is one
V2Max(reader) ==
    IF reader.kind # "file" \/ reader.lines = <<>> THEN Ok(None)
    ELSE IF Len(reader.lines[1]) < 1 THEN Panic("index out of bounds")
    ELSE IF reader.lines[1][1] = MaxKey THEN Ok(None)
    ELSE IF Len(reader.lines[1]) < 2 THEN Panic("index out of bounds")
    ELSE V2Quota(parse_u64(reader.lines[1][2]), parse_u64(reader.lines[1][1]))

\* a cpu_count that is taken from cpu.max whenever the file is there
V2CpuCountMaxFirst(files, cpu_max_path, cpu_count) ==
    IF ~Exists(files, cpu_max_path) THEN Returned(Ok(cpu_count), <<>>)
    ELSE Returned(V2Max(files[cpu_max_path]),
                  <<[op |-> "exists", path |-> cpu_max_path],
                    [op |-> "open", path |-> cpu_max_path]>>)

\* the cpu_count that goes into the normalization: the caller's when there is
\* one, else the one of the first line of cpu.max, else none
V2CpuCount(files, cpu_max_path, cpu_count) ==
    IF cpu_count # None THEN Returned(Ok(cpu_count), <<>>)
    ELSE IF ~Exists(files, cpu_max_path)
    THEN Returned(Ok(None), <<[op |-> "exists", path |-> cpu_max_path]>>)
    ELSE Returned(V2Max(files[cpu_max_path]),
                  <<[op |-> "exists", path |-> cpu_max_path],
                    [op |-> "open", path |-> cpu_max_path]>>)

\* the field of the stat that a line of cpu.stat sets, if any
V2Field(name) ==
    IF name = UsageUsecKey THEN "total_usage"
    ELSE IF name = UserUsecKey THEN "user"
    ELSE IF name = SystemUsecKey THEN "system"
    ELSE "none"

RECURSIVE V2StatLoop(_, _, _, _, _)
V2StatLoop(lines, i, cpu, fields_encountered, overflow_checks) ==
    IF i > Len(lines) \/ fields_encountered = CPU_SYS_V2_NUMBER_OF_FIELDS
    THEN Ok([cpu |-> cpu, fields_encountered |-> fields_encountered])
    ELSE LET Field(name, scaled) ==
                 IF scaled.kind # "Ok" THEN scaled
                 ELSE V2StatLoop(lines, i + 1, [cpu EXCEPT ![name] = scaled.value],
                                 fields_encountered + 1, overflow_checks)
             Line(name, value) ==
                 IF value.kind # "Ok" THEN value
                 ELSE IF V2Field(name) = "none"
                 THEN V2StatLoop(lines, i + 1, cpu, fields_encountered, overflow_checks)
                 ELSE Field(V2Field(name), MulU64(value.value, ONE_THOUSAND, overflow_checks))
         IN IF Len(lines[i]) < 2 THEN Panic("index out of bounds")
            ELSE Line(lines[i][1], parse_u64(lines[i][2]))

\* CgroupCpuStat::by_cpu_count: a count above zero divides every counter,
\* rounded to the nearest integer, as the v1 backend divides its total usage
by_cpu_count(cpu, cpu_count) ==
    IF cpu_count # None /\ FGtZero(cpu_count[1])
    THEN [f \in DOMAIN cpu |-> NormalizeTotalUsage(cpu[f], cpu_count[1])]
    ELSE cpu

\* the end of the read: all fields must have been seen
V2Measurement(cpu_count, loop) ==
    IF loop.kind # "Ok" THEN loop
    ELSE IF loop.value.fields_encountered # CPU_SYS_V2_NUMBER_OF_FIELDS
    THEN Err("UnexpectedContent", "Did not encounter all expected fields")
    ELSE Ok(by_cpu_count(loop.value.cpu, cpu_count))

\* the lines of cpu.stat, when the file can be opened and read
V2Stat(cpu_count, lines, overflow_checks) ==
    IF lines.kind # "Ok" THEN lines
    ELSE V2Measurement(cpu_count,
                       V2StatLoop(lines.value, 1,
                                  [total_usage |-> <<>>, user |-> <<>>, system |-> <<>>],
                                  0, overflow_checks))

\* cpu.stat is opened once the cpu_count is there
V2Read(files, path, count, overflow_checks) ==
    IF count.result.kind # "Ok" THEN count
    ELSE Returned(V2Stat(count.result.value, file_to_string(files, path), overflow_checks),
                  count.opened \o <<[op |-> "open", path |-> path]>>)

read_and_parse_v2_sys_stat(files, path, cpu_max_path, cpu_count, overflow_checks) ==
    V2Read(files, path, V2CpuCount(files, cpu_max_path, cpu_count), overflow_checks)

(***************************************************************************)
(* cgroup memory backends (memory/cgroup_v1.rs, memory/cgroup_v2.rs).      *)
(* A backend gives its result and the paths it opened, in order.           *)
(***************************************************************************)
ShmemKey == <<"s", "h", "m", "e", "m">>
CacheKey == <<"c", "a", "c", "h", "e">>
\* 9223372036854771712, what cgroups v1 reports when no limit is set
V1_NO_LIMIT == <<712, 771, 854, 36, 372, 223, 9>>

\* the swap fields, which both backends fill last; their files may be missing
SwapFree(swap_total, swap_used) ==
    IF swap_total # None /\ swap_used # None
    THEN Some(saturating_sub(swap_total[1], swap_used[1]))
    ELSE None

RECURSIVE V1MemoryStatLoop(_, _, _)
V1MemoryStatLoop(lines, i, memory) ==
    IF i > Len(lines) THEN Ok(memory)
    ELSE LET Line(segments, value) ==
                 IF value.kind # "Ok" THEN value
                 ELSE IF segments[1] = ShmemKey
                 THEN V1MemoryStatLoop(lines, i + 1,
                                       [memory EXCEPT !.shmem = bytes_to_kilo_bytes(value.value)])
                 ELSE IF segments[1] = CacheKey
                 THEN V1MemoryStatLoop(lines, i + 1,
                                       [memory EXCEPT !.cached = bytes_to_kilo_bytes(value.value)])
                 ELSE V1MemoryStatLoop(lines, i + 1, memory)
         IN IF Len(lines[i]) < 2 THEN Panic("index out of bounds")
            ELSE Line(lines[i], parse_u64(lines[i][2]))

\* swap_total of both backends: the swap limit above the memory limit
SwapTotal(total, swap_limit) ==
    IF swap_limit.kind = "Ok" /\ total # None
    THEN Some(saturating_sub(bytes_to_kilo_bytes(swap_limit.value), total[1]))
    ELSE None
\* free of both backends: total - used, when there is a total
Free(total, used, overflow_checks) ==
    LET Difference(d) == IF d.kind # "Ok" THEN d ELSE Ok(Some(d.value))
    IN IF total = None THEN Ok(None) ELSE Difference(SubU64(total[1], used, overflow_checks))

read_and_parse_v1_sys_memory(files, path, overflow_checks) ==
    LET limit_path == Join(path, "memory.limit_in_bytes")
        usage_path == Join(path, "memory.usage_in_bytes")
        stat_path == Join(path, "memory.stat")
        swap_limit_path == Join(path, "memory.memsw.limit_in_bytes")
        swap_usage_path == Join(path, "memory.memsw.usage_in_bytes")
        Swap(memory, swap_total, swap_used) ==
            Returned(Ok([memory EXCEPT !.swap_total = swap_total, !.swap_used = swap_used,
                                       !.swap_free = SwapFree(swap_total, swap_used)]),
                     <<limit_path, usage_path, stat_path, swap_limit_path, swap_usage_path>>)
        SwapUsage(memory, used_memory, swap_usage) ==
            Swap(memory,
                 SwapTotal(memory.total, read_file_value_as_u64(files, swap_limit_path)),
                 IF swap_usage.kind = "Ok"
                 THEN Some(saturating_sub(bytes_to_kilo_bytes(swap_usage.value), used_memory))
                 ELSE None)
        FreeMemory(memory, used_memory, free) ==
            IF free.kind # "Ok" THEN Returned(free, <<limit_path, usage_path, stat_path>>)
            ELSE SwapUsage([memory EXCEPT !.free = free.value], used_memory,
                           read_file_value_as_u64(files, swap_usage_path))
        Used(memory, used_memory, used) ==
            IF used.kind # "Ok" THEN Returned(used, <<limit_path, usage_path, stat_path>>)
            ELSE FreeMemory([memory EXCEPT !.used = used.value], used_memory,
                            Free(memory.total, used.value, overflow_checks))
        Stat(used_memory, loop) ==
            IF loop.kind # "Ok" THEN Returned(loop, <<limit_path, usage_path, stat_path>>)
            ELSE Used(loop.value, used_memory,
                      SubU64(used_memory, loop.value.cached, overflow_checks))
        StatLines(total, used_memory, lines) ==
            IF lines.kind # "Ok" THEN Returned(lines, <<limit_path, usage_path, stat_path>>)
            ELSE Stat(used_memory,
                      V1MemoryStatLoop(lines.value, 1,
                                       [total |-> total, free |-> None, used |-> <<>>,
                                        buffers |-> <<>>, cached |-> <<>>, shmem |-> <<>>,
                                        swap_total |-> None, swap_free |-> None,
                                        swap_used |-> None]))
        Reader(total, used_memory, reader) ==
            IF reader.kind # "Ok" THEN Returned(reader, <<limit_path, usage_path, stat_path>>)
            ELSE StatLines(total, used_memory, Lines(reader.value, stat_path))
        Usage(total, usage) ==
            IF usage.kind # "Ok" THEN Returned(usage, <<limit_path, usage_path>>)
            ELSE Reader(total, bytes_to_kilo_bytes(usage.value),
                        file_to_buf_reader(files, stat_path))
        Limit(limit) ==
            IF limit.kind # "Ok" THEN Returned(limit, <<limit_path>>)
            ELSE Usage(IF LCmp(limit.value, V1_NO_LIMIT) < 0
                       THEN Some(bytes_to_kilo_bytes(limit.value)) ELSE None,
                       read_file_value_as_u64(files, usage_path))
    IN Limit(read_file_value_as_u64(files, limit_path))

\* the loop stops at the first shmem line
RECURSIVE V2MemoryStatLoop(_, _, _)
V2MemoryStatLoop(lines, i, memory) ==
    IF i > Len(lines) THEN Ok(memory)
    ELSE LET Line(segments, value) ==
                 IF value.kind # "Ok" THEN value
                 ELSE IF segments[1] = ShmemKey
                 THEN Ok([memory EXCEPT !.shmem = Some(bytes_to_kilo_bytes(value.value))])
                 ELSE V2MemoryStatLoop(lines, i + 1, memory)
         IN IF Len(lines[i]) < 2 THEN Panic("index out of bounds")
            ELSE Line(lines[i], parse_u64(lines[i][2]))

read_and_parse_v2_sys_memory(files, path, overflow_checks) ==
    LET max_path == Join(path, "memory.max")
        current_path == Join(path, "memory.current")
        stat_path == Join(path, "memory.stat")
        swap_max_path == Join(path, "memory.swap.max")
        swap_current_path == Join(path, "memory.swap.current")
        Swap(memory, swap_total, swap_used) ==
            Returned(Ok([memory EXCEPT !.swap_total = swap_total, !.swap_used = swap_used,
                                       !.swap_free = SwapFree(swap_total, swap_used)]),
                     <<max_path, current_path, stat_path, swap_max_path, swap_current_path>>)
        SwapCurrent(memory, swap_current) ==
            Swap(memory,
                 SwapTotal(memory.total, read_file_value_as_u64(files, swap_max_path)),
                 IF swap_current.kind = "Ok"
                 THEN Some(bytes_to_kilo_bytes(swap_current.value)) ELSE None)
        FreeMemory(memory, free) ==
            IF free.kind # "Ok" THEN Returned(free, <<max_path, current_path, stat_path>>)
            ELSE SwapCurrent([memory EXCEPT !.free = free.value],
                             read_file_value_as_u64(files, swap_current_path))
        Stat(loop) ==
            IF loop.kind # "Ok" THEN Returned(loop, <<max_path, current_path, stat_path>>)
            ELSE FreeMemory(loop.value, Free(loop.value.total, loop.value.used, overflow_checks))
        StatLines(total, used, lines) ==
            IF lines.kind # "Ok" THEN Returned(lines, <<max_path, current_path, stat_path>>)
            ELSE Stat(V2MemoryStatLoop(lines.value, 1,
                                       [total |-> total, free |-> None, used |-> used,
                                        buffers |-> None, cached |-> None, shmem |-> None,
                                        swap_total |-> None, swap_free |-> None,
                                        swap_used |-> None]))
        Reader(total, used, reader) ==
            IF reader.kind # "Ok" THEN Returned(reader, <<max_path, current_path, stat_path>>)
            ELSE StatLines(total, used, Lines(reader.value, stat_path))
        Current(total, current) ==
            IF current.kind # "Ok" THEN Returned(current, <<max_path, current_path>>)
            ELSE Reader(total, bytes_to_kilo_bytes(current.value),
                        file_to_buf_reader(files, stat_path))
        Max(max) ==
            Current(IF max.kind = "Ok" THEN Some(bytes_to_kilo_bytes(max.value)) ELSE None,
                    read_file_value_as_u64(files, current_path))
    IN Max(read_file_value_as_u64(files, max_path))

(***************************************************************************)
(* Container read of the memory domain (memory/cgroup.rs).  The trace is   *)
(* what the call did to the file system: the paths it probed, the backend  *)
(* it called with its directory, and the paths the backend opened.         *)
(***************************************************************************)
V2_SYS_FS_DIR == <<"/sys/fs/cgroup">>
V1_SYS_FS_DIR == <<"/sys/fs/cgroup", "memory">>
Probed(path) == [op |-> "exists", path |-> path]
Called(backend, path) == [op |-> backend, path |-> path]
Opened(paths) == [i \in 1..Len(paths) |-> [op |-> "open", path |-> paths[i]]]
Selected(result, trace) == [result |-> result, trace |-> trace]

\* a selector that looks for the v1 directory first
read_from_container_v1_first(files, overflow_checks) ==
    LET v2_sys_fs_file == Join(V2_SYS_FS_DIR, "memory.current")
        V1(backend) ==
            Selected(backend.result, <<Probed(V1_SYS_FS_DIR), Called("v1", V1_SYS_FS_DIR)>>
                                     \o Opened(backend.opened))
        V2(backend) ==
            Selected(backend.result, <<Probed(V1_SYS_FS_DIR), Probed(v2_sys_fs_file),
                                       Called("v2", V2_SYS_FS_DIR)>> \o Opened(backend.opened))
    IN IF dir_exists(files, V1_SYS_FS_DIR)
       THEN V1(read_and_parse_v1_sys_memory(files, V1_SYS_FS_DIR, overflow_checks))
       ELSE IF Exists(files, v2_sys_fs_file)
       THEN V2(read_and_parse_v2_sys_memory(files, V2_SYS_FS_DIR, overflow_checks))
       ELSE Selected(Err("UnexpectedContent",
                         [text |-> "Directory {} not found", args |-> <<V1_SYS_FS_DIR>>]),
                     <<Probed(V1_SYS_FS_DIR), Probed(v2_sys_fs_file)>>)

\* a selector that falls back to the v1 backend when the v2 backend fails
read_from_container_with_fallback(files, overflow_checks) ==
    LET v2_sys_fs_file == Join(V2_SYS_FS_DIR, "memory.current")
        V1(backend) ==
            Selected(backend.result, <<Probed(v2_sys_fs_file), Probed(V1_SYS_FS_DIR),
                                       Called("v1", V1_SYS_FS_DIR)>> \o Opened(backend.opened))
        Fallback(v2, backend) ==
            Selected(backend.result,
                     <<Probed(v2_sys_fs_file), Called("v2", V2_SYS_FS_DIR)>> \o Opened(v2.opened)
                         \o <<Probed(V1_SYS_FS_DIR), Called("v1", V1_SYS_FS_DIR)>>
                         \o Opened(backend.opened))
        V2(backend) ==
            IF backend.result.kind # "Ok" /\ dir_exists(files, V1_SYS_FS_DIR)
            THEN Fallback(backend, read_and_parse_v1_sys_memory(files, V1_SYS_FS_DIR, overflow_checks))
            ELSE Selected(backend.result, <<Probed(v2_sys_fs_file), Called("v2", V2_SYS_FS_DIR)>>
                                          \o Opened(backend.opened))
    IN IF Exists(files, v2_sys_fs_file)
       THEN V2(read_and_parse_v2_sys_memory(files, V2_SYS_FS_DIR, overflow_checks))
       ELSE IF dir_exists(files, V1_SYS_FS_DIR)
       THEN V1(read_and_parse_v1_sys_memory(files, V1_SYS_FS_DIR, overflow_checks))
       ELSE Selected(Err("UnexpectedContent",
                         [text |-> "Directory {} not found", args |-> <<V1_SYS_FS_DIR>>]),
                     <<Probed(v2_sys_fs_file), Probed(V1_SYS_FS_DIR)>>)

read_from_container(files, overflow_checks) ==
    LET v2_sys_fs_file == Join(V2_SYS_FS_DIR, "memory.current")
        V2(backend) ==
            Selected(backend.result, <<Probed(v2_sys_fs_file), Called("v2", V2_SYS_FS_DIR)>>
                                     \o Opened(backend.opened))
        V1(backend) ==
            Selected(backend.result, <<Probed(v2_sys_fs_file), Probed(V1_SYS_FS_DIR),
                                       Called("v1", V1_SYS_FS_DIR)>> \o Opened(backend.opened))
    IN IF Exists(files, v2_sys_fs_file)
       THEN V2(read_and_parse_v2_sys_memory(files, V2_SYS_FS_DIR, overflow_checks))
       ELSE IF dir_exists(files, V1_SYS_FS_DIR)
       THEN V1(read_and_parse_v1_sys_memory(files, V1_SYS_FS_DIR, overflow_checks))
       ELSE Selected(Err("UnexpectedContent",
                         [text |-> "Directory {} not found", args |-> <<V1_SYS_FS_DIR>>]),
                     <<Probed(v2_sys_fs_file), Probed(V1_SYS_FS_DIR)>>)

(***************************************************************************)
(* /proc/stat and percentages (cpu/proc.rs)                                *)
(***************************************************************************)
AddU64(a, b, overflow_checks) ==
    IF LCmp(LAdd(Dec, a, b), U64Max) <= 0 THEN Ok(LAdd(Dec, a, b))
    ELSE IF overflow_checks THEN Panic("attempt to add with overflow")
    ELSE Ok(LSub(Dec, LAdd(Dec, a, b), TwoPow64))

\* the sum of the values from the i-th on, added to acc one by one
RECURSIVE SumU64(_, _, _, _)
SumU64(values, i, acc, overflow_checks) ==
    IF i > Len(values) \/ acc.kind # "Ok" THEN acc
    ELSE SumU64(values, i + 1, AddU64(acc.value, values[i], overflow_checks), overflow_checks)

\* stats.get(i).unwrap_or("0"), parsed (the columns are counted from 1)
ProcStatColumn(stats, i) == parse_u64(IF i <= Len(stats) THEN stats[i] ELSE <<"0">>)
\* the first of the columns `columns` that does not parse, or the values of all
ProcStatColumns(stats, columns) ==
    IF \E k \in 1..Len(columns) : ProcStatColumn(stats, columns[k]).kind # "Ok"
    THEN ProcStatColumn(stats, columns[CHOOSE k \in 1..Len(columns) :
                                   /\ ProcStatColumn(stats, columns[k]).kind # "Ok"
                                   /\ \A j \in 1..(k - 1) : ProcStatColumn(stats, columns[j]).kind = "Ok"])
    ELSE Ok([k \in 1..Len(columns) |-> ProcStatColumn(stats, columns[k]).value])

\* cpu.total: the sum of the ten fields
ProcStatTotal(time, cpu, total) ==
    IF total.kind # "Ok" THEN total
    ELSE Ok([precise_time_ns |-> time, stat |-> [cpu EXCEPT !.total = total.value]])

\* system, idle, iowait, irq, softirq and steal: columns 3 to 8
ProcStatRest(time, user, nice, guest, guestnice, rest, overflow_checks) ==
    IF rest.kind # "Ok" THEN rest
    ELSE ProcStatTotal(time,
                       [total |-> <<>>, user |-> user, nice |-> nice,
                        system |-> rest.value[1], idle |-> rest.value[2],
                        iowait |-> rest.value[3], irq |-> rest.value[4],
                        softirq |-> rest.value[5], steal |-> rest.value[6],
                        guest |-> guest, guestnice |-> guestnice],
                       SumU64(<<nice>> \o rest.value \o <<guest, guestnice>>, 1, Ok(user),
                              overflow_checks))

\* user: usertime - guest and nice: nicetime - guestnice
ProcStatNice(time, stats, user, nice, guest, guestnice, overflow_checks) ==
    IF user.kind # "Ok" THEN user
    ELSE IF nice.kind # "Ok" THEN nice
    ELSE ProcStatRest(time, user.value, nice.value, guest, guestnice,
                      ProcStatColumns(stats, <<3, 4, 5, 6, 7, 8>>), overflow_checks)

\* usertime, nicetime, guest and guestnice: columns 1, 2, 9 and 10
ProcStatUser(time, stats, first, overflow_checks) ==
    IF first.kind # "Ok" THEN first
    ELSE ProcStatNice(time, stats,
                      SubU64(first.value[1], first.value[3], overflow_checks),
                      SubU64(first.value[2], first.value[4], overflow_checks),
                      first.value[3], first.value[4], overflow_checks)

\* the first line without its first token
ProcStatLine(time, stats, overflow_checks) ==
    IF Len(stats) < 5 THEN Err("UnexpectedContent", "Incorrect number of stats")
    ELSE ProcStatUser(time, stats, ProcStatColumns(stats, <<1, 2, 9, 10>>), overflow_checks)

\* read_line: the first line of the file, empty at the end of the file
ProcStatReader(time, reader, path, overflow_checks) ==
    IF reader.kind # "Ok" THEN reader
    ELSE IF reader.value.kind # "file" THEN Err("IO", path)
    ELSE ProcStatLine(time,
                      IF reader.value.lines = <<>> \/ reader.value.lines[1] = <<>> THEN <<>>
                      ELSE Tail(reader.value.lines[1]),
                      overflow_checks)

\* `time` is what time::precise_time_ns() gives
read_and_parse_proc_stat(files, path, time, overflow_checks) ==
    ProcStatReader(time, file_to_buf_reader(files, path), path, overflow_checks)

\* `as f32` of an f64 (the values at hand are within the range of f32)
F64ToF32(x) ==
    IF x.k # "num" \/ x.m = <<>> THEN x
    ELSE [k |-> "num", m |-> RoundRat(x.m, <<1>>, 24).m, e |-> RoundRat(x.m, <<1>>, 24).e + x.e]

ONE_HUNDRED == U64ToF64(<<100>>)

\* a percentage_of_total without the factor 100
percentage_of_total_as_ratio(self, value) ==
    F64ToF32(FDiv(U64ToF64(value), U64ToF64(self.total)))

percentage_of_total(self, value) ==
    F64ToF32(FMul(FDiv(U64ToF64(value), U64ToF64(self.total)), ONE_HUNDRED))

PercentageFields == {"user", "nice", "system", "idle", "iowait", "irq", "softirq", "steal",
                     "guest", "guestnice"}
in_percentages(self) == [f \in PercentageFields |-> percentage_of_total(self, self[f])]

(***************************************************************************)
(* /proc/net/dev (network.rs)                                              *)
(***************************************************************************)
\* str::split(c): the pieces of a text between the occurrences of c
RECURSIVE SplitAt(_, _, _, _)
SplitAt(text, c, i, piece) ==
    IF i > Len(text) THEN <<piece>>
    ELSE IF text[i] = c THEN <<piece>> \o SplitAt(text, c, i + 1, <<>>)
    ELSE SplitAt(text, c, i + 1, Append(piece, text[i]))
split(text, c) == SplitAt(text, c, 1, <<>>)
\* str::split_whitespace of a text
split_whitespace(text) == SelectSeq(split(text, " "), LAMBDA piece : piece # <<>>)

BytesKey == <<"b", "y", "t", "e", "s">>
\* Iterator::position: the number of elements before the first that is e
Position(group, e) == (CHOOSE i \in 1..Len(group) : group[i] = e /\ \A j \in 1..(i - 1) : group[j] # e) - 1
Positions(receive_group, transmit_group) ==
    IF \A i \in 1..Len(receive_group) : receive_group[i] # BytesKey
    THEN Err("UnexpectedContent", "bytes field not found for receive")
    ELSE IF \A i \in 1..Len(transmit_group) : transmit_group[i] # BytesKey
    THEN Err("UnexpectedContent", "bytes field not found for transmit")
    ELSE Ok([receive_bytes |-> 1 + Position(receive_group, BytesKey),
             transmit_bytes |-> 1 + Len(receive_group) + Position(transmit_group, BytesKey)])
\* header_line is the text of the line
get_positions(header_line) ==
    IF Len(split(header_line, "|")) # 3
    THEN Err("UnexpectedContent", "Incorrect number of segments")
    ELSE Positions(split_whitespace(split(header_line, "|")[2]),
                   split_whitespace(split(header_line, "|")[3]))

\* str::trim_matches(c): the text without the c at its start and its end
RECURSIVE trim_matches(_, _)
trim_matches(text, c) ==
    IF text # <<>> /\ text[1] = c THEN trim_matches(Tail(text), c)
    ELSE IF text # <<>> /\ text[Len(text)] = c
    THEN trim_matches(SubSeq(text, 1, Len(text) - 1), c)
    ELSE text

\* a HashMap after insert(name, traffic)
Inserted(interfaces, name, traffic) ==
    [n \in DOMAIN interfaces \cup {name} |-> IF n = name THEN traffic ELSE interfaces[n]]

\* the NetworkTraffic literal of a line that passed the check of its length;
\* the columns of the code count from 0
NetworkTrafficOf(segments, positions, received) ==
    IF received.kind # "Ok" THEN received
    ELSE IF positions.transmit_bytes + 1 > Len(segments) THEN Panic("index out of bounds")
    ELSE IF parse_u64(segments[positions.transmit_bytes + 1]).kind # "Ok"
    THEN parse_u64(segments[positions.transmit_bytes + 1])
    ELSE Ok([received |-> received.value,
             transmitted |-> parse_u64(segments[positions.transmit_bytes + 1]).value])

\* the body of the loop for one line
NetworkLine(segments, positions) ==
    IF Len(segments) < 1 THEN Panic("index out of bounds")
    ELSE IF Len(segments) < positions.transmit_bytes
    THEN Err("UnexpectedContent",
             [text |-> "Expected at least {} items, had {} for '{}'",
              args |-> <<positions.transmit_bytes, Len(segments), trim_matches(segments[1], ":")>>])
    ELSE IF positions.receive_bytes + 1 > Len(segments) THEN Panic("index out of bounds")
    ELSE NetworkTrafficOf(segments, positions, parse_u64(segments[positions.receive_bytes + 1]))

\* the loop over lines[2..] and the measurement after it
RECURSIVE NetworkLines(_, _, _, _, _)
NetworkLines(time, lines, i, positions, interfaces) ==
    IF i > Len(lines) THEN Ok([precise_time_ns |-> time, interfaces |-> interfaces])
    ELSE IF NetworkLine(lines[i], positions).kind # "Ok" THEN NetworkLine(lines[i], positions)
    ELSE NetworkLines(time, lines, i + 1, positions,
                      Inserted(interfaces, trim_matches(lines[i][1], ":"),
                               NetworkLine(lines[i], positions).value))

NetworkPositions(time, lines, positions) ==
    IF positions.kind # "Ok" THEN positions
    ELSE NetworkLines(time, lines, 3, positions.value, <<>>)

\* `time` is what precise_time_ns() gives
read_and_parse_network(files, path, time) ==
    IF file_to_string(files, path).kind # "Ok" THEN file_to_string(files, path)
    ELSE IF Len(file_to_string(files, path).value) < 2 THEN Panic("index out of bounds")
    ELSE NetworkPositions(time, file_to_string(files, path).value,
                          get_positions(Spaced(file_to_string(files, path).value[2])))

(***************************************************************************)
(* Output of df (disk_usage.rs)                                            *)
(***************************************************************************)
\* the loop over output.split("\n").skip(1); a line is its
\* split_whitespace(), `lines` has the first line too
RECURSIVE DfLines(_, _, _, _)
DfLines(lines, i, out, filesystem_on_previous_line) ==
    IF i > Len(lines) THEN Ok(out)
    ELSE IF Len(lines[i]) = 0 THEN DfLines(lines, i + 1, out, filesystem_on_previous_line)
    ELSE IF Len(lines[i]) = 1 THEN DfLines(lines, i + 1, out, Some(lines[i][1]))
    ELSE IF Len(lines[i]) = 5
    THEN IF filesystem_on_previous_line # None
         THEN DfLines(lines, i + 1, Append(out, filesystem_on_previous_line \o lines[i]), None)
         ELSE Err("UnexpectedContent", "filesystem expected on previous line")
    ELSE IF Len(lines[i]) = 6
    THEN DfLines(lines, i + 1, Append(out, lines[i]), filesystem_on_previous_line)
    ELSE Err("UnexpectedContent", "Incorrect number of segments")

\* `output` is the sequence of the lines of the text
parse_df_output(output) == DfLines(output, 2, <<>>, None)

(***************************************************************************)
(* State                                                                   *)
(***************************************************************************)
VARIABLES
    domain,     \* what is called: calculate_per_minute of "cpu", "network" or "disk",
                \* a container read of "memory", "cpu_v1" or "cpu_v2", in_percentages
                \* of a "stat"
    prev,       \* self: the earlier measurement (the cpu_count of the caller for
                \* "cpu_v2", the CpuStat for "stat")
    next,       \* next_measurement
    fs,         \* the file system that a read sees
    result,     \* what the call returned
    trace,      \* what a container read did to the file system, in order
    pc,         \* "ready" before the call, "done" after it ("boot" and "read"
                \* before the reads of /proc/stat, "percent" after in_percentages)
    percentages \* what in_percentages returned

vars == <<domain, prev, next, fs, result, trace, pc, percentages>>

(***************************************************************************)
(* Inputs of the rate engine                                               *)
(***************************************************************************)
MaxTicks == 4
HalfMinute == <<0, 0, 0, 30>>
PrevTime == <<0, 0, 0, 60>>
NextTimes == {LMulSmall(Dec, HalfMinute, k) : k \in 1..MaxTicks}

N0 == <<>>
N59 == <<59>>
N1000 == <<0, 1>>
N1059 == <<59, 1>>

CpuStatOf(f, v, w) == [g \in {CpuFields[i] : i \in 1..Len(CpuFields)} |-> IF g = f THEN v ELSE w]
CpuPrevStats == {CpuStatOf("total", b, b) : b \in {N0, N1000}}
CpuNextStats == {CpuStatOf(CpuFields[i], v, w) : i \in 1..Len(CpuFields), v \in {N0, N59, N1059}, w \in {N1000, N1059}}

InterfaceNames == {"eth0", "lo"}
DeviceNames == {"sda", "sdb"}
Traffics == {[received |-> N0, transmitted |-> N0], [received |-> N59, transmitted |-> N59],
             [received |-> N59, transmitted |-> N0]}
MapsOver(Names, V) == UNION {[S -> V] : S \in SUBSET Names}
UniformMapsOver(Names, V) == {[n \in S |-> v] : S \in SUBSET Names, v \in V}

ProcStatOf(f, v) == [g \in {ProcDiskFields[i] : i \in 1..Len(ProcDiskFields)} |-> IF g = f THEN v ELSE N0]
DiskStatValues == {[variant |-> "Proc", s |-> ProcStatOf("sectors_read", N0)],
                   [variant |-> "Proc", s |-> ProcStatOf("sectors_read", N59)],
                   [variant |-> "Sys", s |-> [read |-> N0, written |-> N0]],
                   [variant |-> "Sys", s |-> [read |-> N59, written |-> N59]]}

InitRate ==
    /\ domain \in {"cpu", "network", "disk"}
    /\ \E t \in NextTimes :
          \/ /\ domain = "cpu"
             /\ prev \in {[precise_time_ns |-> PrevTime, stat |-> s] : s \in CpuPrevStats}
             /\ next \in {[precise_time_ns |-> t, stat |-> s] : s \in CpuNextStats}
          \/ /\ domain = "network"
             /\ prev \in {[precise_time_ns |-> PrevTime, interfaces |-> m] : m \in UniformMapsOver(InterfaceNames, Traffics)}
             /\ next \in {[precise_time_ns |-> t, interfaces |-> m] : m \in MapsOver(InterfaceNames, Traffics)}
          \/ /\ domain = "disk"
             /\ prev \in {[precise_time_ns |-> PrevTime, stats |-> m] : m \in UniformMapsOver(DeviceNames, DiskStatValues)}
             /\ next \in {[precise_time_ns |-> t, stats |-> m] : m \in MapsOver(DeviceNames, DiskStatValues)}
    /\ fs = <<>>
    /\ result = NotCalled
    /\ trace = <<>>
    /\ percentages = NoValue
    /\ pc = "ready"

(***************************************************************************)
(* Operations                                                              *)
(***************************************************************************)
CpuCalculatePerMinute ==
    /\ pc = "ready" /\ domain = "cpu"
    /\ result' = CpuCalculatePerMinuteResult(prev, next)
    /\ pc' = "done"
    /\ UNCHANGED <<domain, prev, next, fs, trace, percentages>>

NetworkCalculatePerMinute ==
    /\ pc = "ready" /\ domain = "network"
    /\ \E order \in Orders(DOMAIN prev.interfaces) :
          result' = NetworkCalculatePerMinuteResult(prev, next, order)
    /\ pc' = "done"
    /\ UNCHANGED <<domain, prev, next, fs, trace, percentages>>

DiskCalculatePerMinute ==
    /\ pc = "ready" /\ domain = "disk"
    /\ \E order \in Orders(DOMAIN prev.stats) :
          result' = DiskCalculatePerMinuteResult(prev, next, order)
    /\ pc' = "done"
    /\ UNCHANGED <<domain, prev, next, fs, trace, percentages>>

NextRate == CpuCalculatePerMinute \/ NetworkCalculatePerMinute \/ DiskCalculatePerMinute

SpecRate == InitRate /\ [][NextRate]_vars

(***************************************************************************)
(* Inputs of the container reads                                           *)
(***************************************************************************)
MaxCpuUnits == 3
OneLine(segment) == File(<< <<segment>> >>)
Optional(S) == {None} \cup {Some(x) : x \in S}
\* the file system with `path` only, or without it
Entry(path, node) == IF node = None THEN <<>> ELSE (path :> node[1])

CpuacctDir == <<"/sys/fs/cgroup", "cpuacct">>
CpuPeriodPath == <<"/sys/fs/cgroup", "cpu", "cpu.cfs_period_us">>
CpuQuotaPath == <<"/sys/fs/cgroup", "cpu", "cpu.cfs_quota_us">>
\* period and quota in microseconds, in steps of 50 ms
CfsValues == {Decimal(LFromNat(Dec, 50000 * k)) : k \in 0..MaxCpuUnits}
PeriodFiles == {OneLine(v) : v \in CfsValues \cup {<<"x">>}}
QuotaFiles == {OneLine(v) : v \in CfsValues \cup {MinusOne}}
\* 152657213021, 2^53 + 1, 2^64 - 1 and a text that is no u64
UsageFiles == {OneLine(Decimal(<<21, 213, 657, 152>>)), OneLine(Decimal(<<993, 740, 254, 199, 7, 9>>)),
               OneLine(Decimal(U64Max)), OneLine(<<"-", "5">>)}
\* a name that no backend knows
AnonKey == <<"a", "n", "o", "n">>
\* cpuacct.stat: 14934 and 98 ticks; a user counter whose nanoseconds exceed
\* 2^64; no system line; a line of one token; a line of another name, with a
\* number and with a text that is no number; two user lines
CpuStatFiles == {File(<< <<UserKey, Decimal(<<934, 14>>)>>, <<SystemKey, Decimal(<<98>>)>> >>),
                 File(<< <<UserKey, Decimal(<<371, 407, 674, 844, 1>>)>>, <<SystemKey, Decimal(<<98>>)>> >>),
                 File(<< <<UserKey, Decimal(<<934, 14>>)>> >>),
                 File(<< <<UserKey>>, <<SystemKey, Decimal(<<98>>)>> >>),
                 File(<< <<AnonKey, Decimal(<<7>>)>>, <<UserKey, Decimal(<<934, 14>>)>>,
                         <<SystemKey, Decimal(<<98>>)>> >>),
                 File(<< <<AnonKey, <<"x">>>>, <<UserKey, Decimal(<<934, 14>>)>>,
                         <<SystemKey, Decimal(<<98>>)>> >>),
                 File(<< <<UserKey, Decimal(<<934, 14>>)>>, <<UserKey, Decimal(<<934, 14>>)>> >>)}
CpuV1FileSystems ==
    {(V2_SYS_FS_DIR :> Dir) @@ (CpuacctDir :> Dir)
        @@ Entry(CpuPeriodPath, p) @@ Entry(CpuQuotaPath, q)
        @@ Entry(Join(CpuacctDir, "cpuacct.usage"), u) @@ Entry(Join(CpuacctDir, "cpuacct.stat"), s) :
     p \in Optional(PeriodFiles), q \in Optional(QuotaFiles),
     u \in Optional(UsageFiles), s \in Optional(CpuStatFiles)}

CpuStatPath == <<"/sys/fs/cgroup", "cpu.stat">>
CpuMaxPath == <<"/sys/fs/cgroup", "cpu.max">>
\* cpu.max: quota (or max) and period; also one token only, and an empty line
CpuMaxFiles ==
    {File(<< <<q, p>> >>) : q \in CfsValues \cup {MaxKey, <<"x">>}, p \in CfsValues}
    \cup {File(<< <<MaxKey>> >>), File(<< <<Decimal(<<0, 100>>)>> >>), File(<< <<>> >>)}
\* cpu.stat: 171462, 53792 and 117670 microseconds; an unknown name first; a
\* usage whose nanoseconds exceed 2^64; no system_usec; an unknown name with a
\* value that is no number; a line of one token; three usage_usec lines
CpuV2StatFiles ==
    {File(<< <<UsageUsecKey, Decimal(<<462, 171>>)>>, <<UserUsecKey, Decimal(<<792, 53>>)>>,
             <<SystemUsecKey, Decimal(<<670, 117>>)>> >>),
     File(<< <<AnonKey, Decimal(<<7>>)>>, <<UsageUsecKey, Decimal(<<462, 171>>)>>,
             <<UserUsecKey, Decimal(<<792, 53>>)>>, <<SystemUsecKey, Decimal(<<670, 117>>)>> >>),
     File(<< <<UsageUsecKey, Decimal(<<552, 709, 73, 744, 446, 18>>)>>,
             <<UserUsecKey, Decimal(<<792, 53>>)>>, <<SystemUsecKey, Decimal(<<670, 117>>)>> >>),
     File(<< <<UsageUsecKey, Decimal(<<462, 171>>)>>, <<UserUsecKey, Decimal(<<792, 53>>)>> >>),
     File(<< <<UsageUsecKey, Decimal(<<462, 171>>)>>, <<AnonKey, <<"x">>>>,
             <<UserUsecKey, Decimal(<<792, 53>>)>>, <<SystemUsecKey, Decimal(<<670, 117>>)>> >>),
     File(<< <<UsageUsecKey, Decimal(<<462, 171>>)>>, <<UserUsecKey>>,
             <<SystemUsecKey, Decimal(<<670, 117>>)>> >>),
     File(<< <<UsageUsecKey, Decimal(<<462, 171>>)>>, <<UsageUsecKey, Decimal(<<462, 171>>)>>,
             <<UsageUsecKey, Decimal(<<462, 171>>)>> >>)}
\* the cpu_count a caller passes: 0.0, 0.5, 1.0, ...
CpuCounts == {FDiv(U64ToF64(LFromNat(Dec, k)), U64ToF64(<<2>>)) : k \in 0..(MaxCpuUnits + 1)}
CpuV2FileSystems ==
    {(V2_SYS_FS_DIR :> Dir) @@ Entry(CpuStatPath, s) @@ Entry(CpuMaxPath, m) :
     s \in Optional(CpuV2StatFiles), m \in Optional(CpuMaxFiles)}

\* 1 MiB, 2 MiB, 4 MiB and 8 MiB in bytes
MiB1 == Decimal(<<576, 48, 1>>)
MiB2 == Decimal(<<152, 97, 2>>)
MiB4 == Decimal(<<304, 194, 4>>)
MiB8 == Decimal(<<608, 388, 8>>)
MemoryV2Trees ==
    {Entry(Join(V2_SYS_FS_DIR, "memory.current"), c) @@ Entry(Join(V2_SYS_FS_DIR, "memory.max"), m)
        @@ Entry(Join(V2_SYS_FS_DIR, "memory.stat"), s)
        @@ Entry(Join(V2_SYS_FS_DIR, "memory.swap.max"), w)
        @@ Entry(Join(V2_SYS_FS_DIR, "memory.swap.current"), w) :
     c \in Optional({OneLine(MiB2)}),
     m \in Optional({OneLine(MaxKey), OneLine(MiB4), OneLine(MiB1), OneLine(<<"x">>)}),
     s \in Optional({File(<< <<AnonKey, MiB1>>, <<ShmemKey, MiB1>> >>), File(<< <<AnonKey>> >>)}),
     w \in Optional({OneLine(MiB8), OneLine(<<"x">>)})}
MemoryV1Trees ==
    {<<>>, (V1_SYS_FS_DIR :> OneLine(MiB1))}
    \cup {(V1_SYS_FS_DIR :> Dir) @@ (Join(V1_SYS_FS_DIR, "memory.usage_in_bytes") :> OneLine(MiB2))
             @@ Entry(Join(V1_SYS_FS_DIR, "memory.limit_in_bytes"), l)
             @@ Entry(Join(V1_SYS_FS_DIR, "memory.stat"), s)
             @@ Entry(Join(V1_SYS_FS_DIR, "memory.memsw.limit_in_bytes"), w)
             @@ Entry(Join(V1_SYS_FS_DIR, "memory.memsw.usage_in_bytes"), w) :
          l \in Optional({OneLine(Decimal(V1_NO_LIMIT)), OneLine(MiB4)}),
          s \in Optional({File(<< <<CacheKey, MiB1>>, <<ShmemKey, Decimal(<<>>)>> >>),
                          File(<< <<CacheKey, MiB4>> >>)}),
          w \in Optional({OneLine(MiB8), OneLine(<<"x">>)})}
MemoryFileSystems == {(V2_SYS_FS_DIR :> Dir) @@ v2 @@ v1 : v2 \in MemoryV2Trees, v1 \in MemoryV1Trees}

InitCgroup ==
    /\ \/ domain = "memory" /\ fs \in MemoryFileSystems
       \/ domain = "cpu_v1" /\ fs \in CpuV1FileSystems
       \/ domain = "cpu_v2" /\ fs \in CpuV2FileSystems
    /\ \/ domain # "cpu_v2" /\ prev = NoValue
       \/ domain = "cpu_v2" /\ prev \in Optional(CpuCounts)
    /\ next = NoValue
    /\ result = NotCalled
    /\ trace = <<>>
    /\ percentages = NoValue
    /\ pc = "ready"

\* memory::cgroup::read_from_container()
MemoryReadFromContainer ==
    /\ pc = "ready" /\ domain = "memory"
    /\ \E overflow_checks \in BOOLEAN :
          LET Return(r) == result' = r.result /\ trace' = r.trace
          IN Return(read_from_container(fs, overflow_checks))
    /\ pc' = "done"
    /\ UNCHANGED <<domain, prev, next, fs, percentages>>

\* cpu::cgroup_v1::read_and_parse_v1_sys_stat(path, cpu_period_path, cpu_quota_path)
ReadAndParseV1SysStat ==
    /\ pc = "ready" /\ domain = "cpu_v1"
    /\ \E overflow_checks \in BOOLEAN :
          result' = read_and_parse_v1_sys_stat(fs, CpuacctDir, CpuPeriodPath, CpuQuotaPath,
                                               overflow_checks)
    /\ pc' = "done"
    /\ UNCHANGED <<domain, prev, next, fs, trace, percentages>>

\* cpu::cgroup_v2::read_and_parse_v2_sys_stat(path, cpu_max_path, cpu_count); the
\* caller's cpu_count is prev
ReadAndParseV2SysStat ==
    /\ pc = "ready" /\ domain = "cpu_v2"
    /\ \E overflow_checks \in BOOLEAN :
          LET Return(r) == result' = r.result /\ trace' = r.opened
          IN Return(read_and_parse_v2_sys_stat(fs, CpuStatPath, CpuMaxPath, prev,
                                               overflow_checks))
    /\ pc' = "done"
    /\ UNCHANGED <<domain, prev, next, fs, percentages>>

NextCgroup == MemoryReadFromContainer \/ ReadAndParseV1SysStat \/ ReadAndParseV2SysStat

SpecCgroup == InitCgroup /\ [][NextCgroup]_vars

(***************************************************************************)
(* Inputs of the /proc/stat reader and of in_percentages                   *)
(***************************************************************************)
ProcStat1Path == <<"fixtures/linux/cpu", "proc_stat_1">>
ProcStat2Path == <<"fixtures/linux/cpu", "proc_stat_2">>
CpuKey == <<"c", "p", "u">>
ProcStatLineOf(ticks) == <<CpuKey>> \o [i \in 1..Len(ticks) |-> Decimal(LFromNat(Dec, ticks[i]))]
\* the first line of /proc/stat: all counters zero; five columns; one more
\* tick of user and of idle; ten columns; four columns; a column that is no
\* number; more guest time than user time
ProcStatFiles ==
    {File(<<ProcStatLineOf(<<0, 0, 0, 0, 0, 0, 0, 0, 0, 0>>)>>),
     File(<<ProcStatLineOf(<<1000, 0, 0, 1000, 0>>)>>),
     File(<<ProcStatLineOf(<<1001, 0, 0, 1001, 0>>)>>),
     File(<<ProcStatLineOf(<<1500, 70, 100, 1100, 120, 10, 20, 50, 50, 30>>)>>),
     File(<<ProcStatLineOf(<<1059, 0, 0, 1000, 0>>)>>),
     File(<<ProcStatLineOf(<<1000, 0, 0, 1000>>)>>),
     File(<< <<CpuKey, <<"x">>, <<"0">>, <<"0">>, <<"0">>, <<"0">>>> >>),
     File(<<ProcStatLineOf(<<0, 0, 0, 0, 0, 0, 0, 0, 5, 0>>)>>),
     File(<<>>)}
ProcFileSystems ==
    {Entry(ProcStat1Path, a) @@ Entry(ProcStat2Path, b) :
     a \in Optional(ProcStatFiles), b \in Optional(ProcStatFiles)}

\* a CpuStat of the ten fields in the order of the struct, total first
CpuStatFrom(values) == [i \in 1..Len(CpuFields) |-> LFromNat(Dec, values[i])]
CpuStatNamed(values) ==
    [f \in {CpuFields[i] : i \in 1..Len(CpuFields)} |->
        CpuStatFrom(values)[CHOOSE i \in 1..Len(CpuFields) : CpuFields[i] = f]]
\* stats that a caller builds: those of the tests, totals of zero, a total
\* that is not the sum of the fields
CpuStats ==
    {CpuStatNamed(<<1000, 450, 70, 100, 100, 120, 10, 20, 50, 50, 30>>),
     CpuStatNamed(<<1000, 445, 65, 100, 100, 147, 1, 2, 50, 55, 35>>),
     CpuStatNamed(<<0, 0, 0, 0, 0, 0, 0, 0, 0, 0, 0>>),
     CpuStatNamed(<<0, 5, 0, 0, 0, 0, 0, 0, 0, 0, 0>>),
     CpuStatNamed(<<3, 1, 2, 0, 0, 0, 0, 0, 0, 0, 0>>),
     CpuStatNamed(<<7, 1, 2, 3, 0, 1, 0, 0, 0, 0, 0>>)}
    \cup {[CpuStatNamed(<<0, 1, 0, 0, 0, 0, 0, 0, 0, 0, 0>>) EXCEPT !.total = U64Max,
                                                                 !.user = <<993, 740, 254, 199, 7, 9>>]}

InitProc ==
    /\ \/ /\ domain = "cpu" /\ pc = "boot"
          /\ fs \in ProcFileSystems
          /\ prev = NoValue
       \/ /\ domain = "stat" /\ pc = "ready"
          /\ fs = <<>>
          /\ prev \in CpuStats
    /\ next = NoValue
    /\ result = NotCalled
    /\ trace = <<>>
    /\ percentages = NoValue

\* cpu::proc::os::read_and_parse_proc_stat(path), called twice: the first
\* measurement becomes self, the second next_measurement; the clock does not
\* run backwards
ReadAndParseProcStat ==
    /\ domain = "cpu" /\ pc \in {"boot", "read"}
    /\ \E overflow_checks \in BOOLEAN, time \in NextTimes :
          /\ pc = "read" => LCmp(time, prev.precise_time_ns) >= 0
          /\ LET Return(r) ==
                     IF r.kind # "Ok"
                     THEN result' = r /\ pc' = "done" /\ UNCHANGED <<prev, next>>
                     ELSE IF pc = "boot"
                     THEN prev' = r.value /\ pc' = "read" /\ UNCHANGED <<next, result>>
                     ELSE next' = r.value /\ pc' = "ready" /\ UNCHANGED <<prev, result>>
             IN Return(read_and_parse_proc_stat(fs, IF pc = "boot" THEN ProcStat1Path
                                                    ELSE ProcStat2Path,
                                                time, overflow_checks))
    /\ UNCHANGED <<domain, fs, trace, percentages>>

\* the stat that in_percentages is called on: one that the caller built or
\* the one that calculate_per_minute returned
Self == IF domain = "stat" THEN prev ELSE result.value

\* CpuStat::in_percentages(&self)
InPercentages ==
    /\ \/ domain = "stat" /\ pc = "ready"
       \/ domain = "cpu" /\ pc = "done" /\ result.kind = "Ok"
    /\ percentages' = in_percentages(Self)
    /\ pc' = "percent"
    /\ UNCHANGED <<domain, prev, next, fs, result, trace>>

NextProc == ReadAndParseProcStat \/ CpuCalculatePerMinute \/ InPercentages

SpecProc == InitProc /\ [][NextProc]_vars

(***************************************************************************)
(* Inputs of the readers of /proc/net/dev and of the output of df          *)
(***************************************************************************)
ProcNetDev == <<"/proc/net/dev">>
Chars(n) == Decimal(LFromNat(Dec, n))
\* the second line of /proc/net/dev: bytes first in both groups; bytes
\* second in both groups; no group; no bytes among the received; no bytes
\* among the transmitted
NetworkHeaders ==
    {<<<<"f", "a", "c", "e">>, <<"|">> \o BytesKey, <<"p", "k", "t", "s", "|">> \o BytesKey,
       <<"p", "k", "t", "s">>>>,
     <<<<"f", "a", "c", "e">>, <<"|", "p", "k", "t", "s">>, BytesKey \o <<"|", "p", "k", "t", "s">>,
       BytesKey>>,
     <<<<"f", "a", "c", "e">>, BytesKey, <<"p", "k", "t", "s">>>>,
     <<<<"f", "a", "c", "e">>, <<"|", "p", "k", "t", "s">>, <<"|">> \o BytesKey>>,
     <<<<"f", "a", "c", "e">>, <<"|">> \o BytesKey, <<"|", "p", "k", "t", "s">>>>}
MaxColumns == 5
\* the line of an interface with n columns, the name among them
InterfaceLine(name, n) == [j \in 1..n |-> IF j = 1 THEN name ELSE Chars(100 * j)]
Lo == <<"l", "o", ":">>
Eth0 == <<"e", "t", "h", "0", ":">>
\* lines of none to MaxColumns columns, a second interface, a line with a
\* column that is no number
InterfaceLines ==
    {InterfaceLine(Lo, n) : n \in 0..MaxColumns}
    \cup {InterfaceLine(Eth0, MaxColumns)}
    \cup {[InterfaceLine(Lo, MaxColumns) EXCEPT ![j] = <<"x">>] : j \in 2..4}
NetworkFiles ==
    {File(<<>>), File(<< <<<<"I", "n", "t", "e", "r", "-", "|">>>> >>)}
    \cup {File(<< <<<<"I", "n", "t", "e", "r", "-", "|">>>>, h >> \o rest) :
          h \in NetworkHeaders,
          rest \in {<<>>} \cup {<<a>> : a \in InterfaceLines}
                   \cup {<<a, b>> : a \in InterfaceLines, b \in InterfaceLines}}

MaxDfLines == 4
\* the i-th line of the output of df with n columns: each column tells its
\* line and its place, the first is a name unless the columns are five
DfLine(i, n) ==
    [j \in 1..n |-> IF j = 1 /\ n # 5 THEN <<"f", "s">> \o Chars(i) ELSE Chars(10 * i + j)]
DfColumns == {0, 1, 2, 5, 6}
RECURSIVE DfOutputsOf(_)
DfOutputsOf(n) ==
    IF n = 0 THEN {<<DfLine(1, 6)>>}
    ELSE {Append(o, DfLine(n + 1, c)) : o \in DfOutputsOf(n - 1), c \in DfColumns}
DfOutputs == {<<>>} \cup UNION {DfOutputsOf(n) : n \in 0..MaxDfLines}

InitParse ==
    /\ \/ /\ domain = "network"
          /\ fs \in {<<>>} \cup {(ProcNetDev :> f) : f \in NetworkFiles}
          /\ prev = NoValue
       \/ /\ domain = "df"
          /\ fs = <<>>
          /\ prev \in DfOutputs
    /\ pc = "boot"
    /\ next = NoValue
    /\ result = NotCalled
    /\ trace = <<>>
    /\ percentages = NoValue

\* network::os::read_and_parse_network(path)
ReadAndParseNetwork ==
    /\ domain = "network" /\ pc = "boot"
    /\ \E time \in NextTimes : result' = read_and_parse_network(fs, ProcNetDev, time)
    /\ pc' = "done"
    /\ UNCHANGED <<domain, prev, next, fs, trace, percentages>>

\* disk_usage::os::parse_df_output(output)
ParseDfOutput ==
    /\ domain = "df" /\ pc = "boot"
    /\ result' = parse_df_output(prev)
    /\ pc' = "done"
    /\ UNCHANGED <<domain, prev, next, fs, trace, percentages>>

NextParse == ReadAndParseNetwork \/ ParseDfOutput

SpecParse == InitParse /\ [][NextParse]_vars

(***************************************************************************)
(* Properties of the rate engine, checked under SpecRate                   *)
(***************************************************************************)
\* one view of the three kinds of measurement: entry name -> [variant, s]
EntriesOf(m) ==
    IF domain = "cpu" THEN ("cpu" :> [variant |-> "Cpu", s |-> m.stat])
    ELSE IF domain = "network"
         THEN [n \in DOMAIN m.interfaces |-> [variant |-> "Net", s |-> m.interfaces[n]]]
         ELSE m.stats
ResultEntries ==
    IF domain = "cpu" THEN ("cpu" :> [variant |-> "Cpu", s |-> result.value])
    ELSE IF domain = "network"
         THEN [n \in DOMAIN result.value |-> [variant |-> "Net", s |-> result.value[n]]]
         ELSE result.value

StrictlyLater == LCmp(next.precise_time_ns, prev.precise_time_ns) > 0
\* every entry of prev has an entry of the same kind in next
SameShape ==
    \A n \in DOMAIN EntriesOf(prev) :
        n \in DOMAIN EntriesOf(next) /\ EntriesOf(next)[n].variant = EntriesOf(prev)[n].variant
Comparable(n) ==
    /\ n \in DOMAIN EntriesOf(prev) /\ n \in DOMAIN EntriesOf(next)
    /\ EntriesOf(next)[n].variant = EntriesOf(prev)[n].variant
NonDecreasing ==
    \A n \in DOMAIN EntriesOf(prev) : \A f \in DOMAIN EntriesOf(prev)[n].s :
        LCmp(EntriesOf(next)[n].s[f], EntriesOf(prev)[n].s[f]) >= 0
SomeLower ==
    \E n \in DOMAIN EntriesOf(prev) :
        Comparable(n) /\ \E f \in DOMAIN EntriesOf(prev)[n].s :
                             LCmp(EntriesOf(next)[n].s[f], EntriesOf(prev)[n].s[f]) < 0
SomeMissing == \E n \in DOMAIN EntriesOf(prev) : n \notin DOMAIN EntriesOf(next)
\* (n - p) * 60_000_000_000 / (next time - prev time), truncated, in exact arithmetic
ExactRate(p, n) ==
    LDivMod(Dec, LMul(Dec, LSub(Dec, n, p), NS_PER_MINUTE),
            LSub(Dec, next.precise_time_ns, prev.precise_time_ns)).q

\* C1: with a later timestamp and no counter lower, the call succeeds and every
\* field of the result is the exact rate (delta * 60e9 / window, truncated); so
\* a 60 s window gives the delta and a 30 s window twice the delta.
C1_ExactRate ==
    (pc = "done" /\ StrictlyLater /\ SameShape /\ NonDecreasing) =>
        /\ result.kind = "Ok"
        /\ \A n \in DOMAIN EntriesOf(prev) : \A f \in DOMAIN EntriesOf(prev)[n].s :
              ResultEntries[n].s[f] = ExactRate(EntriesOf(prev)[n].s[f], EntriesOf(next)[n].s[f])

\* C2: a call whose next timestamp is earlier than or equal to the previous one
\* fails with InvalidInput, whatever the counters.
C2_NotLaterIsInvalidInput ==
    (pc = "done" /\ ~StrictlyLater) => result.kind = "InvalidInput"

\* C3: with a later timestamp, one counter of next lower than in prev makes the
\* call fail with UnexpectedContent whatever the other fields are; a field that
\* is equal in both is no error and has rate 0.
C3_LowerCounterIsUnexpectedContent ==
    /\ (pc = "done" /\ StrictlyLater /\ SomeLower) => result.kind = "UnexpectedContent"
    /\ (pc = "done" /\ StrictlyLater /\ SameShape /\ NonDecreasing) =>
          /\ result.kind = "Ok"
          /\ \A n \in DOMAIN EntriesOf(prev) : \A f \in DOMAIN EntriesOf(prev)[n].s :
                EntriesOf(next)[n].s[f] = EntriesOf(prev)[n].s[f] => ResultEntries[n].s[f] = <<>>

\* C4: in the collection domains, with a later timestamp, a name of prev that
\* next does not have makes the call fail with UnexpectedContent, whatever the
\* other entries are.
C4_MissingNameIsUnexpectedContent ==
    (pc = "done" /\ domain # "cpu" /\ StrictlyLater /\ SomeMissing) =>
        result.kind = "UnexpectedContent"

\* next without the names that prev does not have
NextWithoutExtraNames ==
    IF domain = "network"
    THEN [next EXCEPT !.interfaces = [n \in DOMAIN next.interfaces \cap DOMAIN prev.interfaces
                                         |-> next.interfaces[n]]]
    ELSE [next EXCEPT !.stats = [n \in DOMAIN next.stats \cap DOMAIN prev.stats |-> next.stats[n]]]
OutcomesWithoutExtraNames ==
    IF domain = "network"
    THEN {NetworkCalculatePerMinuteResult(prev, NextWithoutExtraNames, o) :
             o \in Orders(DOMAIN prev.interfaces)}
    ELSE {DiskCalculatePerMinuteResult(prev, NextWithoutExtraNames, o) :
             o \in Orders(DOMAIN prev.stats)}

\* C5: a successful call on a collection domain returns exactly the names of
\* prev; names that only next has are not in the result, and the call returns
\* what it returns without them, so they cause no failure.
C5_ResultNamesArePrevNames ==
    (pc = "done" /\ domain # "cpu") =>
        /\ result.kind = "Ok" => DOMAIN result.value = DOMAIN EntriesOf(prev)
        /\ result \in OutcomesWithoutExtraNames
C5_Witness ==
    /\ pc = "done" /\ domain # "cpu" /\ result.kind = "Ok"
    /\ DOMAIN EntriesOf(prev) # {}
    /\ \E n \in DOMAIN EntriesOf(next) : n \notin DOMAIN EntriesOf(prev)

\* the check that the code makes of a pair of measurements fails somewhere
SomeCheckFails ==
    \/ LCmp(prev.precise_time_ns, next.precise_time_ns) > 0
    \/ SomeMissing
    \/ SomeLower
\* C6: when a check of a field or of an entry fails, the call returns an error
\* and nothing else (no rate of any field or entry), and leaves both
\* measurements as they were.
C6_AllOrNothing ==
    [][(pc' = "done" /\ SomeCheckFails') =>
          /\ result'.kind \in {"InvalidInput", "UnexpectedContent"}
          /\ result'.value = NoValue
          /\ prev' = prev /\ next' = next]_vars

(***************************************************************************)
(* Properties of the container reads, checked under SpecCgroup             *)
(***************************************************************************)
V2Marker == Join(V2_SYS_FS_DIR, "memory.current")
UnderV1Dir(path) ==
    Len(path) >= Len(V1_SYS_FS_DIR) /\ SubSeq(path, 1, Len(V1_SYS_FS_DIR)) = V1_SYS_FS_DIR

\* C7: when the v2 marker file exists the container read of the memory domain
\* calls the v2 backend and returns what it returns, and neither probes the v1
\* directory nor opens anything in it, with or without a v1 directory; the v1
\* backend is called only when the v2 marker is missing and the v1 directory
\* exists.
C7_V2MarkerSelectsV2 ==
    (pc = "done" /\ domain = "memory") =>
        /\ Exists(fs, V2Marker) =>
              /\ \E i \in DOMAIN trace : trace[i] = Called("v2", V2_SYS_FS_DIR)
              /\ \E c \in BOOLEAN :
                    result = read_and_parse_v2_sys_memory(fs, V2_SYS_FS_DIR, c).result
              /\ \A i \in DOMAIN trace : trace[i].op # "v1" /\ ~UnderV1Dir(trace[i].path)
        /\ (\E i \in DOMAIN trace : trace[i].op = "v1") =>
              (~Exists(fs, V2Marker) /\ dir_exists(fs, V1_SYS_FS_DIR))
C7_Witness ==
    /\ pc = "done" /\ domain = "memory"
    /\ Exists(fs, V2Marker) /\ dir_exists(fs, V1_SYS_FS_DIR)
    /\ result.kind = "Ok"
    /\ \E i \in DOMAIN trace : trace[i] = Called("v2", V2_SYS_FS_DIR)

\* C8: when neither the v2 marker nor the v1 directory exists the container
\* read returns no measurement: it fails with UnexpectedContent and the error
\* names both paths it probed.
C8_NeitherNamesBothPaths ==
    (pc = "done" /\ domain = "memory" /\ ~Exists(fs, V2Marker) /\ ~dir_exists(fs, V1_SYS_FS_DIR)) =>
        /\ result.kind = "UnexpectedContent"
        /\ result.value = NoValue
        /\ \E i \in DOMAIN result.msg.args : result.msg.args[i] = V2Marker
        /\ \E i \in DOMAIN result.msg.args : result.msg.args[i] = V1_SYS_FS_DIR

QuotaIsMinusOne ==
    /\ domain = "cpu_v1"
    /\ Exists(fs, CpuPeriodPath) /\ Exists(fs, CpuQuotaPath)
    /\ trim(fs[CpuQuotaPath].lines) = MinusOne
RawUsage == read_file_value_as_u64(fs, Join(CpuacctDir, "cpuacct.usage")).value

\* C9: in the v1 CPU backend, with a period file present and a quota file that
\* holds -1, the total_usage that is stored is the counter of cpuacct.usage as
\* it was read, whatever the period is.
C9_MinusOneKeepsRawUsage ==
    (pc = "done" /\ QuotaIsMinusOne /\ result.kind = "Ok") =>
        result.value.total_usage = RawUsage
C9_Witness ==
    /\ pc = "done" /\ QuotaIsMinusOne /\ result.kind = "Ok"
    /\ result.value.total_usage = <<21, 213, 657, 152>>
    /\ trim(fs[CpuPeriodPath].lines) # Decimal(<<>>)

QuotaEqualsPeriod ==
    /\ domain = "cpu_v1"
    /\ Exists(fs, CpuPeriodPath) /\ Exists(fs, CpuQuotaPath)
    /\ parse_u64(trim(fs[CpuPeriodPath].lines)).kind = "Ok"
    /\ parse_u64(trim(fs[CpuQuotaPath].lines)).kind = "Ok"
    /\ parse_u64(trim(fs[CpuQuotaPath].lines)).value = parse_u64(trim(fs[CpuPeriodPath].lines)).value
    /\ parse_u64(trim(fs[CpuPeriodPath].lines)).value # <<>>
\* what the backend stores when there is no quota file, so nothing is divided
WithoutQuotaFile(overflow_checks) ==
    read_and_parse_v1_sys_stat([p \in DOMAIN fs \ {CpuQuotaPath} |-> fs[p]],
                               CpuacctDir, CpuPeriodPath, CpuQuotaPath, overflow_checks)

\* C10: a CPU count of exactly 1.0 changes nothing: in the v1 backend with
\* quota = period every stored field is the one stored without normalization,
\* for every u64 counter.  (The v1 half of the claim; by_cpu_count, which the
\* v2 backend calls, is not part of the sources.)
C10_CountOneIsIdentity ==
    (pc = "done" /\ QuotaEqualsPeriod /\ result.kind = "Ok") =>
        \E c \in BOOLEAN : result = WithoutQuotaFile(c)

(***************************************************************************)
(* Properties of the v2 CPU backend, checked under SpecCgroup              *)
(***************************************************************************)
\* the file system without cpu.max
WithoutCpuMax == [p \in DOMAIN fs \ {CpuMaxPath} |-> fs[p]]
\* the counters of cpu.stat in nanoseconds, before any normalization
V2Unnormalized(overflow_checks) ==
    V2StatLoop(fs[CpuStatPath].lines, 1, [total_usage |-> <<>>, user |-> <<>>, system |-> <<>>],
               0, overflow_checks).value.cpu

\* C11: with a cpu_count of the caller the v2 CPU backend never probes, opens or
\* parses cpu.max: the call returns what it returns without the file (so it
\* succeeds when the file is missing or garbage), and a stat that is returned
\* is the one normalized by the caller's count.
C11_ExplicitCountWins ==
    (pc = "done" /\ domain = "cpu_v2" /\ prev # None) =>
        /\ \A i \in DOMAIN trace : trace[i].path # CpuMaxPath
        /\ \E c \in BOOLEAN :
              result = read_and_parse_v2_sys_stat(WithoutCpuMax, CpuStatPath, CpuMaxPath, prev, c).result
        /\ result.kind = "Ok" =>
              \E c \in BOOLEAN : result.value = by_cpu_count(V2Unnormalized(c), prev)
C11_Witness ==
    /\ pc = "done" /\ domain = "cpu_v2"
    /\ prev = Some(FDiv(U64ToF64(<<2>>), U64ToF64(<<1>>)))
    /\ Exists(fs, CpuMaxPath) /\ fs[CpuMaxPath].lines = << <<<<"x">>, Decimal(<<>>)>> >>
    /\ result.kind = "Ok"
    /\ result.value.total_usage = <<0, 731, 85>>

\* the value that cpu.stat gives for a field, in microseconds: that of the last
\* line of the name, 0 without one
RawUsec(f) ==
    IF \A i \in DOMAIN fs[CpuStatPath].lines : V2Field(fs[CpuStatPath].lines[i][1]) # f THEN <<>>
    ELSE parse_u64(fs[CpuStatPath].lines[CHOOSE i \in DOMAIN fs[CpuStatPath].lines :
                       /\ V2Field(fs[CpuStatPath].lines[i][1]) = f
                       /\ \A j \in DOMAIN fs[CpuStatPath].lines :
                              V2Field(fs[CpuStatPath].lines[j][1]) = f => j <= i][2]).value
\* the cpu_count in effect: the caller's, else the one of cpu.max
EffectiveCount == V2CpuCount(fs, CpuMaxPath, prev).result.value
\* x / c rounded to the nearest integer (halves up), in exact arithmetic, for a
\* finite c = m * 2^e above zero; an infinite c gives 0
ExactQuotient(x, c) ==
    IF c.k = "inf" THEN <<>>
    ELSE LET Nearest(qr, den) == IF LCmp(LMulSmall(Bin, qr.r, 2), den) >= 0
                                 THEN LAdd(Bin, qr.q, <<1>>) ELSE qr.q
             Over(num, den) == LConv(Bin, Dec, Nearest(LDivMod(Bin, num, den), den))
         IN IF c.e >= 0 THEN Over(LConv(Dec, Bin, x), Shl(c.m, c.e))
            ELSE Over(Shl(LConv(Dec, Bin, x), -c.e), c.m)
ScaledThenDivided(f) ==
    IF EffectiveCount # None /\ FGtZero(EffectiveCount[1])
    THEN ExactQuotient(LMul(Dec, RawUsec(f), ONE_THOUSAND), EffectiveCount[1])
    ELSE LMul(Dec, RawUsec(f), ONE_THOUSAND)

\* C12: every counter that the v2 CPU backend returns is the microsecond value
\* of cpu.stat times 1000 and then, when the cpu_count in effect is above zero,
\* divided by it and rounded to the nearest integer: all three counters, so a
\* count of 2 halves them and a count of 0.5 doubles them.
C12_ScaledThenDividedAll ==
    (pc = "done" /\ domain = "cpu_v2" /\ result.kind = "Ok") =>
        \A f \in {"total_usage", "user", "system"} : result.value[f] = ScaledThenDivided(f)

\* the cpu_count of the v1 backend
V1Count == V1CpuCount(fs, CpuPeriodPath, CpuQuotaPath).value

\* C13: the two CPU backends normalize alike: for a cpu_count above zero the
\* v1 backend stores, for its raw nanosecond counters, the triple that the v2
\* backend stores for the same nanosecond counters and the same count.
C13_SameNormalization ==
    (pc = "done" /\ domain = "cpu_v1" /\ result.kind = "Ok" /\ FGtZero(V1Count)) =>
        \E c \in BOOLEAN : result.value = by_cpu_count(WithoutQuotaFile(c).value, Some(V1Count))

\* the lines whose first token is `name`
LinesNamed(lines, name) == {i \in 1..Len(lines) : Len(lines[i]) >= 1 /\ lines[i][1] = name}
CpuacctStatPath == Join(CpuacctDir, "cpuacct.stat")
\* the read of the v1 CPU backend with `lines` as cpuacct.stat
WithCpuacctStat(lines, overflow_checks) ==
    read_and_parse_v1_sys_stat((CpuacctStatPath :> File(lines)) @@ fs,
                               CpuacctDir, CpuPeriodPath, CpuQuotaPath, overflow_checks)
\* cpuacct.stat without the lines of other names than user and system
OnlyUserAndSystem ==
    SelectSeq(fs[CpuacctStatPath].lines, LAMBDA l : Len(l) >= 1 /\ l[1] \in {UserKey, SystemKey})

\* C14: the v1 CPU backend returns a measurement only if cpuacct.stat has a user
\* line and a system line; when one of the two is missing (and the other files
\* are read well) the call fails with UnexpectedContent; lines of other names
\* are no error and do not change what the call returns.
C14_UserAndSystemOrUnexpectedContent ==
    (pc = "done" /\ domain = "cpu_v1" /\ Exists(fs, CpuacctStatPath)) =>
        /\ result.kind = "Ok" =>
              /\ LinesNamed(fs[CpuacctStatPath].lines, UserKey) # {}
              /\ LinesNamed(fs[CpuacctStatPath].lines, SystemKey) # {}
        /\ (/\ \E c \in BOOLEAN : WithCpuacctStat(<<>>, c).kind = "UnexpectedContent"
            /\ \/ LinesNamed(fs[CpuacctStatPath].lines, UserKey) = {}
               \/ LinesNamed(fs[CpuacctStatPath].lines, SystemKey) = {})
           => result.kind = "UnexpectedContent"
        /\ \E c \in BOOLEAN : result = WithCpuacctStat(OnlyUserAndSystem, c)

\* the read of the v2 CPU backend with `lines` as cpu.stat
WithCpuStat(lines, overflow_checks) ==
    read_and_parse_v2_sys_stat((CpuStatPath :> File(lines)) @@ fs, CpuStatPath, CpuMaxPath, prev,
                               overflow_checks).result
V2Names == {UsageUsecKey, UserUsecKey, SystemUsecKey}

\* C15: the v2 CPU backend returns a measurement only if cpu.stat has a line of
\* each of usage_usec, user_usec and system_usec; when one of them is missing
\* (and the cpu_count is there) the call fails with UnexpectedContent.
C15_AllThreeOrUnexpectedContent ==
    (pc = "done" /\ domain = "cpu_v2" /\ Exists(fs, CpuStatPath)) =>
        /\ result.kind = "Ok" =>
              \A name \in V2Names : LinesNamed(fs[CpuStatPath].lines, name) # {}
        /\ (/\ \E c \in BOOLEAN : WithCpuStat(<<>>, c).kind = "UnexpectedContent"
            /\ \E name \in V2Names : LinesNamed(fs[CpuStatPath].lines, name) = {})
           => result.kind = "UnexpectedContent"

\* C16: no read of a container panics, whatever the files hold: empty lines,
\* lines of one token, a cpu.max of one token; a call ends with a value or
\* with an error.
C16_NoPanic == pc = "done" => result.kind # "panic"

(***************************************************************************)
(* Properties of in_percentages, checked under SpecProc                    *)
(***************************************************************************)
\* C17: in_percentages of a stat whose total is 0 gives no NaN and no
\* infinity, and 0 for a field of 0.
C17_ZeroTotalIsFinite ==
    (pc = "percent" /\ Self.total = <<>>) =>
        \A f \in PercentageFields :
            /\ percentages[f].k = "num"
            /\ Self[f] = <<>> => IsZero(percentages[f])

\* the f32 nearest to value * 100 / total
ExactPercentage(value, total) ==
    IF value = <<>> THEN FZero
    ELSE RoundRat(LConv(Dec, Bin, LMulSmall(Dec, value, 100)), LConv(Dec, Bin, total), 24)

\* C18: in_percentages of a stat whose total is above 0 gives field * 100 /
\* total for each of the ten fields (to the precision of the f32 that is
\* returned) and leaves the stat as it is.
C18_PercentageOfTotal ==
    [][(InPercentages /\ Self.total # <<>>) =>
          /\ percentages' = [f \in PercentageFields |-> ExactPercentage(Self[f], Self.total)]
          /\ UNCHANGED <<prev, result>>]_vars
C18_Witness ==
    /\ pc = "percent" /\ domain = "stat"
    /\ prev.total = <<0, 1>> /\ prev.user = <<450>>
    /\ percentages.user = F64ToF32(U64ToF64(<<45>>))

\* the least shift that leaves no bit of a percentage below 2^(-shift)
PercentageShift ==
    CHOOSE s \in {IF percentages[f].e < 0 THEN -percentages[f].e ELSE 0 : f \in PercentageFields} :
        \A f \in PercentageFields : percentages[f].e + s >= 0
\* the sum of the percentages, in units of 2^(-shift)
RECURSIVE SumOfPercentages(_, _)
SumOfPercentages(fields, shift) ==
    IF fields = {} THEN <<>>
    ELSE LET f == CHOOSE g \in fields : TRUE
         IN LAdd(Bin, Shl(percentages[f].m, percentages[f].e + shift),
                 SumOfPercentages(fields \ {f}, shift))
AllFinite == \A f \in PercentageFields : percentages[f].k = "num"

\* C19: for two measurements of read_and_parse_proc_stat with increasing times
\* and counters that do not decrease, and a total rate above zero, the ten
\* percentages of the per-minute stat sum to 100 within 0.1.
C19_PercentagesSumTo100 ==
    (/\ pc = "percent" /\ domain = "cpu"
     /\ LCmp(prev.precise_time_ns, next.precise_time_ns) < 0
     /\ result.value.total # <<>>) =>
        /\ AllFinite
        /\ LCmp(LMulSmall(Bin, SumOfPercentages(PercentageFields, PercentageShift), 10),
                Shl(LFromNat(Bin, 999), PercentageShift)) >= 0
        /\ LCmp(LMulSmall(Bin, SumOfPercentages(PercentageFields, PercentageShift), 10),
                Shl(LFromNat(Bin, 1001), PercentageShift)) <= 0

(***************************************************************************)
(* Properties of the memory backends, checked under SpecCgroup             *)
(***************************************************************************)
\* C20: a Memory that a container read returns with a known total has
\* total = used + free, and neither used nor free was computed by a
\* subtraction that went below zero.
C20_TotalIsUsedPlusFree ==
    (pc = "done" /\ domain = "memory") =>
        /\ result.kind = "Ok" /\ result.value.total # None =>
              /\ result.value.free # None
              /\ result.value.total[1] = LAdd(Dec, result.value.used, result.value.free[1])
        /\ ~(result.kind = "panic" /\ result.msg = "attempt to subtract with overflow")

\* C21: a Memory that a container read returns with swap_total and swap_used
\* both known has swap_total = swap_used + swap_free.
C21_SwapTotalIsUsedPlusFree ==
    (/\ pc = "done" /\ domain = "memory" /\ result.kind = "Ok"
     /\ result.value.swap_total # None /\ result.value.swap_used # None) =>
        /\ result.value.swap_free # None
        /\ result.value.swap_total[1]
              = LAdd(Dec, result.value.swap_used[1], result.value.swap_free[1])

\* the files of one value that a memory backend opened and that are there
OpenedValueFiles ==
    {trace[i].path : i \in {j \in 1..Len(trace) : /\ trace[j].op = "open"
                                                  /\ Exists(fs, trace[j].path)
                                                  /\ trace[j].path[Len(trace[j].path)] # "memory.stat"}}
\* a text that is no integer where one is expected (`max` is the limit of memory.max
\* that the kernel writes when there is none)
NonNumeric(path) ==
    /\ read_file_value_as_u64(fs, path).kind = "UnexpectedContent"
    /\ fs[path].lines # << <<MaxKey>> >>

\* C22: no error is swallowed: when a file that a memory backend opened (the
\* memory limit, the usage, the swap limit, the swap usage) holds a text that
\* is no integer, the read fails with UnexpectedContent.
C22_NonNumericIsUnexpectedContent ==
    (pc = "done" /\ domain = "memory") =>
        \A path \in OpenedValueFiles : NonNumeric(path) => result.kind = "UnexpectedContent"

(***************************************************************************)
(* Further properties of the CPU backends, checked under SpecCgroup        *)
(***************************************************************************)
BothCfsFiles == Exists(fs, CpuPeriodPath) /\ Exists(fs, CpuQuotaPath)
\* the ticks that cpuacct.stat gives for a name: those of its last line that
\* was read, 0 without one
RawTicks(name) ==
    IF LinesNamed(fs[CpuacctStatPath].lines, name) = {} THEN <<>>
    ELSE parse_u64(fs[CpuacctStatPath].lines[
             CHOOSE i \in LinesNamed(fs[CpuacctStatPath].lines, name) :
                 \A j \in LinesNamed(fs[CpuacctStatPath].lines, name) : j <= i][2]).value

\* C23: in the v1 CPU backend, with both the period file and the quota file
\* and a quota that is not -1 (and a cpu_count above zero), total_usage is the
\* counter of cpuacct.usage divided by cpu_count = quota / period and rounded
\* to the nearest integer; user and system are their ticks times 10_000_000,
\* undivided; without one of the two files total_usage is the counter as read.
C23_V1Normalization ==
    (pc = "done" /\ domain = "cpu_v1" /\ result.kind = "Ok") =>
        /\ (BothCfsFiles /\ ~QuotaIsMinusOne /\ FGtZero(V1Count)) =>
              result.value.total_usage = ExactQuotient(RawUsage, V1Count)
        /\ result.value.user = LMul(Dec, RawTicks(UserKey), TEN_MILLION)
        /\ result.value.system = LMul(Dec, RawTicks(SystemKey), TEN_MILLION)
        /\ ~BothCfsFiles => result.value.total_usage = RawUsage

\* cpu.max says `max` for the quota
QuotaIsMax ==
    /\ Exists(fs, CpuMaxPath) /\ fs[CpuMaxPath].lines # <<>>
    /\ fs[CpuMaxPath].lines[1] # <<>> /\ fs[CpuMaxPath].lines[1][1] = MaxKey

\* C24: in the v2 CPU backend without a cpu_count of the caller and with `max`
\* as the first token of cpu.max, nothing is normalized, whatever the second
\* token is: every counter that is stored is the microsecond value of cpu.stat
\* times 1000.
C24_MaxIsUnnormalized ==
    (pc = "done" /\ domain = "cpu_v2" /\ prev = None /\ QuotaIsMax /\ result.kind = "Ok") =>
        \A f \in {"total_usage", "user", "system"} :
            result.value[f] = LMul(Dec, RawUsec(f), ONE_THOUSAND)

(***************************************************************************)
(* Further properties of the container reads, checked under SpecCgroup     *)
(***************************************************************************)
\* the calls of a backend that the selector made
BackendCalls == {i \in DOMAIN trace : trace[i].op \in {"v1", "v2"}}

\* C25: the selector decides once: it calls at most one backend, once; with the
\* v2 marker there, what the v2 backend returns (an error too) is what the
\* caller gets and the v1 directory is not touched; what the v1 backend
\* returns (an error too) is what the caller gets, without a second call.
C25_FirstDecisionIsFinal ==
    (pc = "done" /\ domain = "memory") =>
        /\ Cardinality(BackendCalls) <= 1
        /\ Exists(fs, V2Marker) =>
              /\ \E c \in BOOLEAN :
                    result = read_and_parse_v2_sys_memory(fs, V2_SYS_FS_DIR, c).result
              /\ \A i \in DOMAIN trace : trace[i].op # "v1" /\ ~UnderV1Dir(trace[i].path)
        /\ (\E i \in DOMAIN trace : trace[i].op = "v1") =>
              \E c \in BOOLEAN : result = read_and_parse_v1_sys_memory(fs, V1_SYS_FS_DIR, c).result
C25_Witness ==
    /\ pc = "done" /\ domain = "memory"
    /\ Exists(fs, V2Marker) /\ dir_exists(fs, V1_SYS_FS_DIR)
    /\ read_and_parse_v1_sys_memory(fs, V1_SYS_FS_DIR, TRUE).result.kind = "Ok"
    /\ result.kind \in {"IO", "UnexpectedContent"}
    /\ BackendCalls # {}

\* the quota file of the v1 backend holds 0
QuotaIsZero ==
    /\ BothCfsFiles
    /\ parse_u64(trim(fs[CpuQuotaPath].lines)).kind = "Ok"
    /\ parse_u64(trim(fs[CpuQuotaPath].lines)).value = <<>>

\* C26: a cpu_count of zero, or none, scales nothing: the v1 backend with a
\* quota of 0 stores the counter of cpuacct.usage as read, and all it stores
\* without the quota file, and the v2 backend
\* with a quota of 0 in cpu.max, with Some(0.0) of the caller or without any
\* count stores every counter as it is before normalization.
C26_ZeroCountNeverScales ==
    /\ (pc = "done" /\ domain = "cpu_v1" /\ QuotaIsZero /\ result.kind = "Ok") =>
          /\ result.value.total_usage = RawUsage
          /\ \E c \in BOOLEAN : result = WithoutQuotaFile(c)
    /\ (/\ pc = "done" /\ domain = "cpu_v2" /\ result.kind = "Ok"
        /\ (EffectiveCount = None \/ IsZero(EffectiveCount[1]))) =>
          \E c \in BOOLEAN : result.value = V2Unnormalized(c)
C26_Witness ==
    /\ pc = "done" /\ domain = "cpu_v1" /\ QuotaIsZero
    /\ trim(fs[CpuPeriodPath].lines) = Decimal(<<0, 50>>)
    /\ result.kind = "Ok"
    /\ result.value.total_usage = <<21, 213, 657, 152>>

(***************************************************************************)
(* Scaling of the units in the CPU backends, checked under SpecCgroup      *)
(***************************************************************************)
MultiplyOverflow == result.kind = "panic" /\ result.msg = "attempt to multiply with overflow"

\* C30: the scaling of the units does not overflow: the v1 backend stores
\* user and system as their ticks times 10_000_000, the v2 backend stores
\* each counter, where no cpu_count divides it, as its microseconds times
\* 1000; no product is reduced modulo 2^64 and none aborts the call.
C30_ScalingIsExact ==
    /\ (pc = "done" /\ domain \in {"cpu_v1", "cpu_v2"}) => ~MultiplyOverflow
    /\ (pc = "done" /\ domain = "cpu_v1" /\ result.kind = "Ok") =>
          /\ result.value.user = LMul(Dec, RawTicks(UserKey), TEN_MILLION)
          /\ result.value.system = LMul(Dec, RawTicks(SystemKey), TEN_MILLION)
    /\ (pc = "done" /\ domain = "cpu_v2" /\ result.kind = "Ok"
        /\ (EffectiveCount = None \/ ~FGtZero(EffectiveCount[1]))) =>
          \A f \in {"total_usage", "user", "system"} :
              result.value[f] = LMul(Dec, RawUsec(f), ONE_THOUSAND)

(***************************************************************************)
(* Order of the checks of the rate engine, checked under SpecRate          *)
(***************************************************************************)
Earlier == LCmp(next.precise_time_ns, prev.precise_time_ns) < 0

\* C29: the times are checked before the counters and the names: when the
\* time of next is before the time of prev, calculate_per_minute returns
\* InvalidInput, also with a lower counter in next or with a name that next
\* does not have; it returns UnexpectedContent only when the time of next is
\* not before the time of prev.
C29_TimeCheckFirst ==
    /\ (pc = "done" /\ Earlier) => result.kind = "InvalidInput"
    /\ (pc = "done" /\ result.kind = "UnexpectedContent") => ~Earlier
C29_Witness ==
    /\ pc = "done" /\ domain = "network" /\ Earlier
    /\ SomeLower /\ SomeMissing
    /\ result.kind = "InvalidInput"

(***************************************************************************)
(* Properties of the text readers, checked under SpecParse                 *)
(***************************************************************************)
\* the lines of /proc/net/dev when it has the two lines of the header
NetDevLines ==
    IF Exists(fs, ProcNetDev) /\ fs[ProcNetDev].kind = "file" /\ Len(fs[ProcNetDev].lines) >= 2
    THEN fs[ProcNetDev].lines ELSE <<>>
HeaderPositions ==
    IF NetDevLines = <<>> THEN NotCalled ELSE get_positions(Spaced(NetDevLines[2]))
\* the lines of the interfaces that end before or at the column of the
\* transmitted bytes, the columns counted from 0
TooShort ==
    {i \in 3..Len(NetDevLines) : Len(NetDevLines[i]) <= HeaderPositions.value.transmit_bytes}

\* C27: when the header of /proc/net/dev gives the columns and the line of
\* some interface has no more columns than the index of the transmitted
\* bytes, read_and_parse_network returns UnexpectedContent; it does not index
\* past the end of the line.
C27_ShortLineIsUnexpectedContent ==
    (pc = "done" /\ domain = "network" /\ HeaderPositions.kind = "Ok" /\ TooShort # {}) =>
        result.kind = "UnexpectedContent"

\* the line before line i of the output of df, the empty lines and the first
\* line left out; 0 without one
LineBefore(i) ==
    IF \E j \in 2..(i - 1) : prev[j] # <<>>
    THEN CHOOSE j \in 2..(i - 1) : prev[j] # <<>> /\ \A k \in (j + 1)..(i - 1) : prev[k] = <<>>
    ELSE 0
NameJustBefore(i) == LineBefore(i) # 0 /\ Len(prev[LineBefore(i)]) = 1
\* the rows of the lines from i on: a line of six columns as it is, a line of
\* five columns after the name that comes just before it
RECURSIVE RowsFrom(_)
RowsFrom(i) ==
    IF i > Len(prev) THEN <<>>
    ELSE IF Len(prev[i]) = 6 THEN <<prev[i]>> \o RowsFrom(i + 1)
    ELSE IF Len(prev[i]) = 5 /\ NameJustBefore(i)
    THEN <<prev[LineBefore(i)] \o prev[i]>> \o RowsFrom(i + 1)
    ELSE RowsFrom(i + 1)

\* C28: a successful parse_df_output returns rows of six columns in the order
\* of the input, and a name alone on a line is part of a row only when the
\* line of five columns comes just after it: after a line of six columns or
\* another name the earlier name is in no row.
C28_NameOnlyForNextLine ==
    (pc = "done" /\ domain = "df" /\ result.kind = "Ok") =>
        /\ \A r \in 1..Len(result.value) : Len(result.value[r]) = 6
        /\ result.value = RowsFrom(2)

====
